---------------------------- MODULE Spec2Model ----------------------------
(***************************************************************************)
(* Model of the batch scripts of DT-Herne-Data-Management:                 *)
(*   scripts/sewers/prepareSewers.py        (script "prepareSewers")       *)
(*   scripts/sewers/prepareSewerData.py     (script "prepareSewerData")    *)
(*   scripts/sewers/insertSewerDataIntoDB.py, insertSewersIntoDB.py        *)
(*   scripts/dem/prepare-dem-data.py                                       *)
(*                                                                         *)
(* Units.  Heights (Z, E0101.*, geometry height) are whole centimetres, so *)
(* geoid_undulation = 45.43 m is 4543 and the sentinel 100 m is 10000.     *)
(* Horizontal ordinates of prepareSewers.py (EPSG:4647) are decimetres;    *)
(* lengths are millimetres.  Horizontal ordinates of prepareSewerData.py   *)
(* (already EPSG:4326) count units of 1e-12 degree from a local origin.    *)
(*                                                                         *)
(* Attribute values.  A JSON null, a JSON number and a JSON string holding *)
(* a decimal numeral are [t |-> "null"|"num"|"str", v |-> value]; float()  *)
(* turns a "str" into the "num" of the same value.                         *)
(***************************************************************************)
EXTENDS Integers, Sequences, FiniteSets, TLC

VARIABLES
    script,         \* which script this run executes
    pc,             \* position of the run in main()
    raised,         \* TRUE once an exception is propagating out of main()
    inputDir,       \* ./input: file kind -> sequence of source features
    processingDir,  \* ./processing: [kind, files]
    outputDir,      \* ./output: [kind, files: file name -> content]
    heap,           \* feature objects of the run, by reference
    point_geojson,  \* [isNone, features]: sequence of references
    line_geojson,   \* [isNone, features]
    shafts,         \* sequence of references (prepareSewers.py:143)
    txt_blocks,     \* sequence of references (prepareSewers.py:146)
    json_data,      \* prepareSewerData.py: features of the file being processed
    derived,        \* prepareSewerData.py: [isNone, features] shafts_as_linestring_geojson
    todo,           \* files still to be processed by the file loop
    idx,            \* position of the correlation loop in progress
    listing,        \* order in which the file system lists ./output
    current,        \* the file the loop is processing
    db,             \* MongoDB database: collection name -> [docs, indexed]
    report,         \* what the last bulk insert printed
    config,         \* the insert script's config file: [isFile, collection]
    os_sep,         \* the path separator of the platform the insert script runs on
    runs,           \* how many runs of the insert script have started
    firstLoad,      \* the database as the first run of the insert script left it
    bbox_arg,       \* the geometry a call of calculateBbox is given
    bbox_result     \* what the call returned: [pMin, pMax]

vars == << script, pc, raised, inputDir, processingDir, outputDir, heap,
           point_geojson, line_geojson, shafts, txt_blocks, json_data, derived,
           todo, idx, listing, current, db, report,
           config, os_sep, runs, firstLoad,
               bbox_arg, bbox_result >>

-----------------------------------------------------------------------------
(* Values and small helpers *)

Null == [t |-> "null", v |-> 0]
Num(n) == [t |-> "num", v |-> n]
Str(n) == [t |-> "str", v |-> n]

IsNone(x) == x.t = "null"

\* Python float(x) for x a number or a numeral string
Float(x) == Num(x.v)

\* "float(v) if v is not None else v"
FloatOrNone(x) == IF IsNone(x) THEN x ELSE Float(x)

NoCollection == [isNone |-> TRUE, features |-> << >>]
Collection(fs) == [isNone |-> FALSE, features |-> fs]

Range(s) == { s[i] : i \in DOMAIN s }

RECURSIVE SeqsUpTo(_, _)
SeqsUpTo(S, n) ==
    IF n = 0 THEN { << >> }
    ELSE LET shorter == SeqsUpTo(S, n - 1)
         IN  shorter \cup { Append(s, x) : s \in shorter, x \in S }

\* the list comprehension [f for f in fs if Keep(f)]
Filter(fs, Keep(_)) == SelectSeq(fs, Keep)

\* greatest r with r*r <= n, by bisection on lo..hi
RECURSIVE ISqrtIn(_, _, _)
ISqrtIn(n, lo, hi) ==
    IF lo >= hi THEN lo
    ELSE LET mid == (lo + hi + 1) \div 2
         IN  IF mid * mid <= n THEN ISqrtIn(n, mid, hi) ELSE ISqrtIn(n, lo, mid - 1)

-----------------------------------------------------------------------------
(* Program constants *)

\* geoid_undulation = 45.43 (metres), in centimetres
geoid_undulation == 4543

\* the ignored inspection-symbol layer
InspLayer == "Abwasser-Haltungen-Insp-Symbole-DWA-SK"

\* layers whose name contains "_TXT"
TxtLayers == { "Schacht_TXT", "Haltung_TXT" }

\* epsilon = 0.1 (metres), in millimetres
epsilon == 100

\* buffer_distance = 1 (metre), in decimetres
buffer_distance == 10

DefaultColor == "150,150,150"

\* the default diameter props["E0102.N05_%"] = 300
DefaultDiameter == Num(300)


-----------------------------------------------------------------------------
(* Geometry.  A geometry is [type, rings]: rings is the sequence of vertex   *)
(* sequences of "coordinates".  A Point is one ring of one vertex, a         *)
(* LineString one ring of its vertices, a Polygon its outer ring followed    *)
(* by its inner rings; a vertex is <<x, y, height>>.                         *)

PointGeom(v) == [type |-> "Point", rings |-> << << v >> >>]
LineGeom(vs) == [type |-> "LineString", rings |-> << vs >>]
PolygonGeom(rs) == [type |-> "Polygon", rings |-> rs]

\* an offset added to every ordinate of the vertex, which C24 must tell from Raise
RaiseEveryOrdinate(v, off) == << v[1] + off, v[2] + off, v[3] + off >>

\* coords[2] += geoid_undulation
Raise(v, off) == << v[1], v[2], v[3] + off >>

RaiseRing(ring, off) == [ i \in DOMAIN ring |-> Raise(ring[i], off) ]

\* OffsetGeometry without its LineString branch, which C3 must tell from it
OffsetGeometryPointsOnly(g, geom_type, off) ==
    IF geom_type \in { "Point", "Polygon" }
    THEN [ g EXCEPT !.rings[1] = RaiseRing(@, off) ]
    ELSE g

\* the body of the loop of addHeightOffset for one feature whose geometry is
\* treated as geom_type: Point coords[2], LineString every vertex, Polygon
\* every vertex of coords[0]
OffsetGeometry(g, geom_type, off) ==
    IF geom_type \in { "Point", "LineString", "Polygon" }
    THEN [ g EXCEPT !.rings[1] = RaiseRing(@, off) ]
    ELSE g

\* prepareSewers.py addHeightOffset(json_data, geom_type, geoid_undulation)
addHeightOffsetTyped(fs, geom_type, off) ==
    [ i \in DOMAIN fs |->
        [ fs[i] EXCEPT !.geometry = OffsetGeometry(@, geom_type, off) ] ]

\* prepareSewerData.py addHeightOffset(json_data): the type of each geometry decides
addHeightOffset(fs) ==
    [ i \in DOMAIN fs |->
        [ fs[i] EXCEPT !.geometry = OffsetGeometry(@, @.type, geoid_undulation) ] ]

-----------------------------------------------------------------------------
(* prepareSewers.py: attribute tables *)

N01 == "E0101.N01_%"
N02 == "E0101.N02_%"
L03 == "E0102.N03_%"
D05 == "E0102.N05_%"

PointKeys ==
    { "dwg_handle", "Layer", "Color", "Linetype", "Lineweight", "Hyperlink",
      "Thickness", "E0101.C01_%", "X", "Y", "Z", N01, N02, "E0102.N01_%",
      "E0102.N02_%", L03, "E0102.C05_%", D05, "E0102.N06_%", "E0102.N08_%",
      "C37_%S", "Elevation" }

\* one row of the point shapefile
PointProps(h, layer, color, x, y, z, n01, n02, n03, n05) ==
    [ k \in PointKeys |->
        CASE k = "dwg_handle" -> h
          [] k = "Layer" -> layer
          [] k = "Color" -> color
          [] k = "E0101.C01_%" -> color
          [] k = "X" -> x
          [] k = "Y" -> y
          [] k = "Z" -> z
          [] k = N01 -> n01
          [] k = N02 -> n02
          [] k = L03 -> n03
          [] k = D05 -> n05
          [] k \in { "E0102.N01_%", "E0102.N02_%", "E0102.N08_%" } -> Null
          [] k \in { "Linetype", "Lineweight" } -> "ByLayer"
          [] OTHER -> "" ]

PointFeature(h, r) ==
    [ geometry |-> PointGeom(<< r.x, r.y, r.z >>),
      properties |-> PointProps(h, r.layer, r.color, r.x, r.y, r.z,
                                   r.n01, r.n02, r.n03, r.n05) ]

\* Rotation stands for the fields of the shapefile that attributeNameMap
\* does not name
LineKeys == { "dwg_handle", "Layer", "Color", "Linetype", "Length", "Rotation" }

LineFeature(h, vs) ==
    [ geometry |-> LineGeom(vs),
      properties |-> [ k \in LineKeys |->
                         CASE k = "dwg_handle" -> h
                           [] k = "Layer" -> "Haltung"
                           [] k = "Color" -> "ByLayer"
                           [] k = "Linetype" -> "Continuous"
                           [] OTHER -> "" ] ]

PolygonFeature(h, rs) ==
    [ geometry |-> PolygonGeom(rs),
      properties |-> [ k \in LineKeys |->
                         CASE k = "dwg_handle" -> h
                           [] k = "Layer" -> "Gebiet"
                           [] k = "Color" -> "ByLayer"
                           [] k = "Linetype" -> "Continuous"
                           [] OTHER -> "" ] ]

\* obj[key] = value, adding the key when it is new
SetProp(props, key, value) ==
    [ k \in DOMAIN props \cup { key } |-> IF k = key THEN value ELSE props[k] ]


-----------------------------------------------------------------------------
(* Inputs of prepareSewers.py *)

MaxPoints == 3

\* rows the point shapefile may hold (horizontal ordinates in decimetres,
\* heights in centimetres, declared lengths in millimetres)
Row(layer, color, x, y, z, n01, n02, n03, n05) ==
    [ layer |-> layer, color |-> color, x |-> x, y |-> y, z |-> z,
      n01 |-> n01, n02 |-> n02, n03 |-> n03, n05 |-> n05 ]

SewersPointRows ==
    { Row("Schacht", "7", 0, 0, 500, Null, Null, Null, Null),
      Row("Schacht_TXT", "red", 0, 0, 0, Str(500), Str(200), Null, Null),
      Row("Schacht_TXT", "blue", 0, 0, 0, Str(510), Str(300), Null, Null),
      Row("Schacht_TXT", "purple", 0, 0, 450, Str(450), Null, Null, Null),
      Row("Schacht", "7", 30, 0, 10050, Null, Null, Null, Null),
      Row("Schacht_TXT", "grey", 30, 0, 0, Str(10000), Str(9000), Null, Null),
      Row(InspLayer, "9", 30, 40, 700, Null, Null, Null, Null),
      Row("Haltung_TXT", "green", 20, 5, 0, Null, Null, Str(4000), Str(250)),
      Row("Haltung_TXT", "yellow", 20, 0 - 5, 0, Null, Null, Str(4080), Null),
      Row("Haltung_TXT", "white", 20, 15, 0, Null, Null, Str(4000), Str(400)) }

\* vertex sequences the line shapefile may hold, one pipe each
SewersLineInputs ==
    { << >>,
      << << << 0, 0, 200 >>, << 40, 0, 180 >> >> >>,
      << << << 0, 0, 200 >>, << 30, 40, 150 >> >>,
         << << 0, 0, 200 >>, << 40, 0, 180 >>, << 40, 30, 170 >> >> >> }

PointFile(rows) == [ i \in DOMAIN rows |-> PointFeature(i, rows[i]) ]
LineFile(lines) == [ i \in DOMAIN lines |-> LineFeature(i, lines[i]) ]

PolygonInputs ==
    { << << << << 0, 0, 100 >>, << 40, 0, 300 >>, << 40, 40, 200 >>, << 0, 0, 100 >> >> >> >>,
      << << << << 0, 0, 100 >>, << 40, 0, 300 >>, << 40, 40, 200 >>, << 0, 0, 100 >> >>,
            << << 30, 10, 150 >>, << 35, 10, 0 - 50 >>, << 35, 20, 5000 >>, << 30, 10, 150 >> >> >> >> }

PolygonFile(polys) == [ i \in DOMAIN polys |-> PolygonFeature(i, polys[i]) ]

\* contents of ./input the run may find: which shapefiles, holding what
SewersInputs ==
    { [ k \in { "point", "line" } |-> IF k = "point" THEN PointFile(ps) ELSE LineFile(ls) ] :
        ps \in SeqsUpTo(SewersPointRows, MaxPoints) \ { << >> },
        ls \in SewersLineInputs \ { << >> } }
    \cup { [ k \in { "point", "line" } |-> IF k = "point" THEN PointFile(ps) ELSE LineFile(ls) ] :
             ps \in SeqsUpTo(SewersPointRows, 1), ls \in SewersLineInputs }
    \cup { [ k \in { "point" } |-> PointFile(ps) ] : ps \in SeqsUpTo(SewersPointRows, 1) }
    \cup { [ k \in { "line" } |-> LineFile(ls) ] : ls \in SewersLineInputs }
    \cup { [ k \in { "point", "line", "polygon" } |->
               CASE k = "point" -> PointFile(ps)
                 [] k = "line" -> LineFile(ls)
                 [] OTHER -> PolygonFile(pg) ] :
             ps \in SeqsUpTo(SewersPointRows, 1), ls \in SewersLineInputs, pg \in PolygonInputs }

\* states a directory may be in before the run
EmptyFiles == [ n \in {} |-> << >> ]
AbsentDir == [ kind |-> "absent", files |-> EmptyFiles ]
PlainFile == [ kind |-> "file", files |-> EmptyFiles ]
Dir(files) == [ kind |-> "dir", files |-> files ]
StaleScratch == Dir([ n \in { "old" } |-> << >> ])

\* content of a file of ./output: a FeatureCollection, or a bounding-box side file
Geojson(fs) == [ kind |-> "geojson", features |-> fs ]
BboxInfo(refs) == [ kind |-> "bboxInfo", bboxReferences |-> refs ]


-----------------------------------------------------------------------------
(* prepareSewers.py: the steps of main() *)

\* int(feature["properties"]["Z"]) for a height in centimetres
IntMetres(z) == z \div 100

\* a test for a Z of exactly 100, which C14 must tell from NotSentinelZ
NotSentinelZExactly(f) == f.properties["Z"] # 10000

\* line 124: int(Z) != 100
NotSentinelZ(f) == IntMetres(f.properties["Z"]) # 100

\* line 125: E0101.N01_% != "100.000"
NotSentinelCover(f) == f.properties[N01] # Str(10000)

RemoveSentinels(fs) == Filter(Filter(fs, NotSentinelZ), NotSentinelCover)

\* AssignIds with a counter that starts at 0, which C1 must tell from it
AssignIdsFromZero(fs) ==
    [ i \in DOMAIN fs |-> [ fs[i] EXCEPT !.properties = SetProp(@, "id", i - 1) ] ]

\* lines 128-135: properties["id"] = counter, counter starting at 1
AssignIds(fs) ==
    [ i \in DOMAIN fs |-> [ fs[i] EXCEPT !.properties = SetProp(@, "id", i) ] ]

\* a shaft test that leaves out the points of the "_TXT" layers, which C15
\* must tell from IsShaft
IsShaftNotLabel(f) ==
    /\ IntMetres(f.properties["Z"]) > 0
    /\ f.properties["Layer"] # InspLayer
    /\ f.properties["Layer"] \notin TxtLayers

\* line 143-144
IsShaft(f) ==
    /\ IntMetres(f.properties["Z"]) > 0
    /\ f.properties["Layer"] # InspLayer

\* line 146
IsTxtBlock(f) == f.properties["Layer"] \in TxtLayers

\* line 160
SameXY(p, t) == p["X"] = t["X"] /\ p["Y"] = t["Y"]

ShaftCopiedKeys ==
    { "Color", "Linetype", "Lineweight", "Hyperlink", "Thickness",
      "E0101.C01_%", "E0102.C05_%", "C37_%S", "Elevation" }
ShaftFloatKeys == { N01, N02 }

\* lines 161-171: the assignments made when a label matches a shaft
MergeShaft(props, txt_props) ==
    [ k \in DOMAIN props \cup ShaftCopiedKeys \cup ShaftFloatKeys |->
        CASE k \in ShaftCopiedKeys -> txt_props[k]
          [] k \in ShaftFloatKeys -> FloatOrNone(txt_props[k])
          [] OTHER -> props[k] ]

\* ShaftScan stopping at the first matching label, which C4 must tell from it
RECURSIVE ShaftScanFirst(_, _, _, _)
ShaftScanFirst(h, s, txt, k) ==
    IF k > Len(txt) THEN h
    ELSE IF SameXY(h[s].properties, h[txt[k]].properties)
         THEN [ h EXCEPT ![s].properties = MergeShaft(@, h[txt[k]].properties) ]
         ELSE ShaftScanFirst(h, s, txt, k + 1)

\* lines 155-171: the scan of the labels from position k on, for shaft s
RECURSIVE ShaftScan(_, _, _, _)
ShaftScan(h, s, txt, k) ==
    IF k > Len(txt) THEN h
    ELSE LET t == txt[k]
             h2 == IF SameXY(h[s].properties, h[t].properties)
                   THEN [ h EXCEPT ![s].properties = MergeShaft(@, h[t].properties) ]
                   ELSE h
         IN  ShaftScan(h2, s, txt, k + 1)

\* lines 150-171: one iteration of the loop over the shafts
CorrelateShaft(h, s, txt) ==
    ShaftScan([ h EXCEPT ![s].properties = SetProp(@, "Color", DefaultColor) ], s, txt, 1)

\* getLinestringLength2D, in millimetres, from vertices in decimetres
RECURSIVE getLinestringLength2D(_)
getLinestringLength2D(coords) ==
    IF Len(coords) < 2 THEN 0
    ELSE LET a == coords[1]
             b == coords[2]
             d2 == (a[1] - b[1]) * (a[1] - b[1]) + (a[2] - b[2]) * (a[2] - b[2])
         IN  ISqrtIn(d2 * 10000, 0, 30000) + getLinestringLength2D(Tail(coords))

\* round(float(txt_length2D), 2): millimetres to whole centimetres
Round2(mm) == ((mm + 5) \div 10) * 10

\* the point p lies closer than r to the segment a-b (2D)
NearSegment(p, a, b, r) ==
    LET abx == b[1] - a[1]
        aby == b[2] - a[2]
        apx == p[1] - a[1]
        apy == p[2] - a[2]
        bpx == p[1] - b[1]
        bpy == p[2] - b[2]
        dot == apx * abx + apy * aby
        len2 == abx * abx + aby * aby
        cross == apx * aby - apy * abx
    IN  IF dot <= 0 THEN apx * apx + apy * apy < r * r
        ELSE IF dot >= len2 THEN bpx * bpx + bpy * bpy < r * r
        ELSE cross * cross < r * r * len2

\* LineString(coords).buffer(buffer_distance, round caps and joins).contains(p)
BufferContains(coords, p) ==
    \E i \in 1 .. Len(coords) - 1 :
        NearSegment(p, coords[i], coords[i + 1], buffer_distance)

\* line 197-200: the label is a candidate for the pipe
PipeCandidate(pipe, txt_props) ==
    LET coords == pipe.geometry.rings[1]
        length2D == getLinestringLength2D(coords)
    IN  /\ ~ IsNone(txt_props[L03])
        /\ length2D - epsilon <= Round2(txt_props[L03].v)
        /\ Round2(txt_props[L03].v) <= length2D + epsilon
        /\ BufferContains(coords, << txt_props["X"], txt_props["Y"] >>)

PipeCopiedKeys ==
    { "Color", "Linetype", "Lineweight", "Hyperlink", "Thickness", "E0102.N06_%",
      "E0101.C01_%", "E0102.C05_%", "C37_%S", "Elevation" }
PipeFloatKeys == { "E0102.N01_%", "E0102.N02_%", L03, D05, "E0102.N08_%" }

\* lines 201-215: the assignments made when a label matches a pipe
MergePipe(props, txt_props) ==
    [ k \in DOMAIN props \cup PipeCopiedKeys \cup PipeFloatKeys |->
        CASE k \in PipeCopiedKeys -> txt_props[k]
          [] k \in PipeFloatKeys -> FloatOrNone(txt_props[k])
          [] OTHER -> props[k] ]

\* PipeScan without the break, the last candidate winning, which C5 must tell
\* from it
RECURSIVE PipeScanNoBreak(_, _, _, _)
PipeScanNoBreak(h, p, txt, k) ==
    IF k > Len(txt) THEN h
    ELSE PipeScanNoBreak(
           IF PipeCandidate(h[p], h[txt[k]].properties)
           THEN [ h EXCEPT ![p].properties = MergePipe(@, h[txt[k]].properties) ]
           ELSE h,
           p, txt, k + 1)

\* lines 191-216: the scan of the labels from position k on; break on a match
RECURSIVE PipeScan(_, _, _, _)
PipeScan(h, p, txt, k) ==
    IF k > Len(txt) THEN h
    ELSE IF PipeCandidate(h[p], h[txt[k]].properties)
         THEN [ h EXCEPT ![p].properties = MergePipe(@, h[txt[k]].properties) ]
         ELSE PipeScan(h, p, txt, k + 1)

\* an iteration without the initial values of lines 184-185, which C21 must
\* tell from CorrelatePipe
CorrelatePipeNoDefaults(h, p, txt) == PipeScan(h, p, txt, 1)

\* lines 182-216: one iteration of the loop over the pipes
CorrelatePipe(h, p, txt) ==
    PipeScan([ h EXCEPT ![p].properties =
                 SetProp(SetProp(@, "Color", DefaultColor), D05, DefaultDiameter) ],
             p, txt, 1)

\* gdal.VectorTranslate to EPSG:4326: the horizontal ordinates are
\* transformed (a decimetre is about 1e-6 degree, counted in units of 1e-12
\* degree from the local origin), the height is kept
ToWgs84(v) == << v[1] * 1000000, v[2] * 1000000, v[3] >>

reprojectToWGS84(fs) ==
    [ i \in DOMAIN fs |->
        [ fs[i] EXCEPT !.geometry.rings =
            [ r \in DOMAIN @ |-> [ j \in DOMAIN @[r] |-> ToWgs84(@[r][j]) ] ] ] ]


\* attributeNameMap (umlauts and the per-mille sign transliterated)
attributeNameMap ==
    [ k \in { "id", "AdSPMKey", "dwg_handle", "Layer", "Color", "Linetype",
              "Lineweight", "Hyperlink", "Thickness", "BlkName", "E0101.C01_%",
              "X", "Y", "Z", N01, N02, L03, "E0102.C05_%", D05, "E0102.N08_%",
              "E0102.N01_%", "E0102.N02_%", "E0102.N06_%", "C37_%S", "Length",
              "Area", "Elevation" } |->
        CASE k = "Color" -> "Farbe"
          [] k = "Linetype" -> "Linen-Typ"
          [] k = "Lineweight" -> "Linienstaerke"
          [] k = "Thickness" -> "Dicke"
          [] k = "BlkName" -> "Blockname"
          [] k = "E0101.C01_%" -> "Schachtnummer"
          [] k = N01 -> "Deckelhoehe [m]"
          [] k = N02 -> "Sohlhoehe [m]"
          [] k = L03 -> "Laenge Aufmass [m]"
          [] k = "E0102.C05_%" -> "Materialkuerzel"
          [] k = D05 -> "Profilbreite [mm]"
          [] k = "E0102.N08_%" -> "Neigung [promille]"
          [] k = "E0102.N01_%" -> "Ablaufhoehe [m]"
          [] k = "E0102.N02_%" -> "Anlaufhoehe [m]"
          [] k = "E0102.N06_%" -> "Profilhoehe [mm]"
          [] k = "C37_%S" -> "Kommentar"
          [] OTHER -> k ]

\* a rename that leaves the old key in place, which C19 must tell from
\* renameProperty
renamePropertyKeepingOld(obj, old_name, new_name) ==
    SetProp(obj, new_name, obj[old_name])

\* obj[new_name] = obj.pop(old_name)
renameProperty(obj, old_name, new_name) ==
    SetProp([ k \in DOMAIN obj \ { old_name } |-> obj[k] ], new_name, obj[old_name])

\* lines 239-242: every key of the feature that is in attributeNameMap is renamed
RECURSIVE RenameKeys(_, _)
RenameKeys(props, keys) ==
    IF keys = {} THEN props
    ELSE LET key == CHOOSE k \in keys : TRUE
         IN  RenameKeys(IF key \in DOMAIN attributeNameMap
                        THEN renameProperty(props, key, attributeNameMap[key])
                        ELSE props,
                        keys \ { key })

RenameAll(fs) ==
    [ i \in DOMAIN fs |->
        [ fs[i] EXCEPT !.properties = RenameKeys(@, DOMAIN @) ] ]

\* the objects a list of references names
Deref(h, refs) == [ i \in DOMAIN refs |-> h[refs[i]] ]

RefsFrom(base, n) == [ i \in 1 .. n |-> base + i ]

Idle == << >>

InitSewers ==
    /\ script = "prepareSewers"
    /\ pc = "start"
    /\ raised = FALSE
    /\ inputDir \in SewersInputs
    /\ processingDir \in { PlainFile, StaleScratch }
    /\ outputDir \in { PlainFile, Dir(EmptyFiles) }
    /\ heap = << >>
    /\ point_geojson = NoCollection
    /\ line_geojson = NoCollection
    /\ shafts = << >>
    /\ txt_blocks = << >>
    /\ json_data = << >>
    /\ derived = NoCollection
    /\ todo = << >>
    /\ idx = 0
    /\ listing = << >>
    /\ current = "none"
    /\ db = Idle
    /\ report = Idle
    /\ config = Idle
    /\ os_sep = "/"
    /\ runs = 0
    /\ firstLoad = Idle
    /\ bbox_arg = Idle
    /\ bbox_result = Idle

SewersLocals == << heap, point_geojson, line_geojson, shafts, txt_blocks, idx >>
OtherScripts == << json_data, derived, todo, listing, current, db, report,
                  config, os_sep, runs, firstLoad, bbox_arg, bbox_result >>

\* an exception leaves the try block: control goes to the finally block
Throw ==
    /\ pc' = "finally"
    /\ raised' = TRUE

\* lines 86-91, before the try block
PS_PrepareDirs ==
    /\ script = "prepareSewers" /\ pc = "start"
    /\ IF processingDir.kind = "file"
       THEN /\ pc' = "aborted"
            /\ raised' = TRUE
            /\ UNCHANGED << processingDir, outputDir >>
       ELSE /\ processingDir' = Dir(EmptyFiles)
            /\ IF outputDir.kind = "file"
               THEN pc' = "aborted" /\ raised' = TRUE /\ UNCHANGED outputDir
               ELSE pc' = "convert" /\ outputDir' = Dir(EmptyFiles) /\ UNCHANGED raised
    /\ UNCHANGED << script, inputDir, SewersLocals, OtherScripts >>

\* lines 94-105: every shapefile is converted into ./processing
PS_Convert ==
    /\ script = "prepareSewers" /\ pc = "convert"
    /\ processingDir' = Dir(inputDir)
    /\ pc' = "load"
    /\ UNCHANGED << script, raised, inputDir, outputDir, SewersLocals, OtherScripts >>

\* lines 107-119
PS_LoadConverted ==
    /\ script = "prepareSewers" /\ pc = "load"
    /\ LET files == processingDir.files
           np == IF "point" \in DOMAIN files THEN Len(files["point"]) ELSE 0
           nl == IF "line" \in DOMAIN files THEN Len(files["line"]) ELSE 0
       IN  IF \/ \E k \in DOMAIN files : files[k] = << >>
              \/ "polygon" \in DOMAIN files
           THEN Throw /\ UNCHANGED SewersLocals
           ELSE /\ heap' = (IF np > 0 THEN files["point"] ELSE << >>)
                             \o (IF nl > 0 THEN files["line"] ELSE << >>)
                /\ point_geojson' = IF np > 0 THEN Collection(RefsFrom(0, np))
                                    ELSE NoCollection
                /\ line_geojson' = IF nl > 0 THEN Collection(RefsFrom(np, nl))
                                   ELSE NoCollection
                /\ pc' = "filter"
                /\ UNCHANGED << raised, shafts, txt_blocks, idx >>
    /\ UNCHANGED << script, inputDir, processingDir, outputDir, OtherScripts >>

\* the references whose objects pass the test, in order
KeepRefs(h, refs, Keep(_)) == SelectSeq(refs, LAMBDA r : Keep(h[r]))

\* lines 121-125
PS_RemoveSentinels ==
    /\ script = "prepareSewers" /\ pc = "filter"
    /\ IF point_geojson.isNone
       THEN Throw /\ UNCHANGED point_geojson
       ELSE /\ point_geojson' =
                 Collection(KeepRefs(heap,
                                     KeepRefs(heap, point_geojson.features, NotSentinelZ),
                                     NotSentinelCover))
            /\ pc' = "ids"
            /\ UNCHANGED raised
    /\ UNCHANGED << script, inputDir, processingDir, outputDir, heap, line_geojson,
                    shafts, txt_blocks, idx, OtherScripts >>

\* heap with the objects named by refs replaced by fs
Store(h, refs, fs) ==
    [ r \in DOMAIN h |->
        IF \E i \in DOMAIN refs : refs[i] = r
        THEN fs[CHOOSE i \in DOMAIN refs : refs[i] = r]
        ELSE h[r] ]

\* lines 127-135
PS_AssignIds ==
    /\ script = "prepareSewers" /\ pc = "ids"
    /\ IF line_geojson.isNone
       THEN Throw /\ UNCHANGED heap
       ELSE /\ heap' = LET h1 == Store(heap, point_geojson.features,
                                       AssignIds(Deref(heap, point_geojson.features)))
                       IN  Store(h1, line_geojson.features,
                                 AssignIds(Deref(h1, line_geojson.features)))
            /\ pc' = "offset"
            /\ UNCHANGED raised
    /\ UNCHANGED << script, inputDir, processingDir, outputDir, point_geojson,
                    line_geojson, shafts, txt_blocks, idx, OtherScripts >>

\* lines 137-140
PS_AddHeightOffset ==
    /\ script = "prepareSewers" /\ pc = "offset"
    /\ heap' = LET h1 == Store(heap, point_geojson.features,
                               addHeightOffsetTyped(Deref(heap, point_geojson.features),
                                                    "Point", geoid_undulation))
               IN  Store(h1, line_geojson.features,
                         addHeightOffsetTyped(Deref(h1, line_geojson.features),
                                              "LineString", geoid_undulation))
    /\ pc' = "partition"
    /\ UNCHANGED << script, raised, inputDir, processingDir, outputDir, point_geojson,
                    line_geojson, shafts, txt_blocks, idx, OtherScripts >>

\* lines 142-146
PS_Partition ==
    /\ script = "prepareSewers" /\ pc = "partition"
    /\ shafts' = KeepRefs(heap, point_geojson.features, IsShaft)
    /\ txt_blocks' = KeepRefs(heap, point_geojson.features, IsTxtBlock)
    /\ pc' = "shafts"
    /\ idx' = 1
    /\ UNCHANGED << script, raised, inputDir, processingDir, outputDir, heap,
                    point_geojson, line_geojson, OtherScripts >>

\* lines 149-174: one shaft per step, then point_geojson["features"] = shafts
PS_CorrelateShafts ==
    /\ script = "prepareSewers" /\ pc = "shafts"
    /\ IF idx <= Len(shafts)
       THEN /\ heap' = CorrelateShaft(heap, shafts[idx], txt_blocks)
            /\ idx' = idx + 1
            /\ UNCHANGED << pc, point_geojson >>
       ELSE /\ point_geojson' = Collection(shafts)
            /\ pc' = "pipes"
            /\ idx' = 1
            /\ UNCHANGED heap
    /\ UNCHANGED << script, raised, inputDir, processingDir, outputDir,
                    line_geojson, shafts, txt_blocks, OtherScripts >>

\* lines 178-218: one pipe per step
PS_CorrelatePipes ==
    /\ script = "prepareSewers" /\ pc = "pipes"
    /\ IF idx <= Len(line_geojson.features)
       THEN /\ heap' = CorrelatePipe(heap, line_geojson.features[idx], txt_blocks)
            /\ idx' = idx + 1
            /\ UNCHANGED pc
       ELSE /\ pc' = "reproject"
            /\ idx' = 0
            /\ UNCHANGED heap
    /\ UNCHANGED << script, raised, inputDir, processingDir, outputDir, point_geojson,
                    line_geojson, shafts, txt_blocks, OtherScripts >>

\* lines 221-234: both collections are written to ./processing, reprojected
\* and read back as new objects
PS_Reproject ==
    /\ script = "prepareSewers" /\ pc = "reproject"
    /\ LET newShafts == reprojectToWGS84(Deref(heap, point_geojson.features))
           newPipes == reprojectToWGS84(Deref(heap, line_geojson.features))
           base == Len(heap)
       IN  /\ heap' = heap \o newShafts \o newPipes
           /\ point_geojson' = Collection(RefsFrom(base, Len(newShafts)))
           /\ shafts' = RefsFrom(base, Len(newShafts))
           /\ line_geojson' = Collection(RefsFrom(base + Len(newShafts), Len(newPipes)))
           /\ processingDir' =
                Dir([ n \in DOMAIN processingDir.files
                            \cup { "shafts", "pipes", "shaftsWgs84", "pipesWgs84" } |->
                        CASE n = "shafts" -> Deref(heap, point_geojson.features)
                          [] n = "pipes" -> Deref(heap, line_geojson.features)
                          [] n = "shaftsWgs84" -> newShafts
                          [] n = "pipesWgs84" -> newPipes
                          [] OTHER -> processingDir.files[n] ])
    /\ pc' = "rename"
    /\ UNCHANGED << script, raised, inputDir, outputDir, txt_blocks, idx, OtherScripts >>

\* a renaming pass after which the pipes are correlated, which C20 must tell
\* from PS_Rename
PS_RenameBeforePipes ==
    /\ script = "prepareSewers" /\ pc = "rename"
    /\ heap' = LET h1 == Store(heap, shafts, RenameAll(Deref(heap, shafts)))
               IN  Store(h1, line_geojson.features,
                         RenameAll(Deref(h1, line_geojson.features)))
    /\ pc' = "pipes"
    /\ UNCHANGED << script, raised, inputDir, processingDir, outputDir, point_geojson,
                    line_geojson, shafts, txt_blocks, idx, OtherScripts >>

\* lines 236-247
PS_Rename ==
    /\ script = "prepareSewers" /\ pc = "rename"
    /\ heap' = LET h1 == Store(heap, shafts, RenameAll(Deref(heap, shafts)))
               IN  Store(h1, line_geojson.features,
                         RenameAll(Deref(h1, line_geojson.features)))
    /\ pc' = "save"
    /\ UNCHANGED << script, raised, inputDir, processingDir, outputDir, point_geojson,
                    line_geojson, shafts, txt_blocks, idx, OtherScripts >>

\* lines 249-258
PS_Save ==
    /\ script = "prepareSewers" /\ pc = "save"
    /\ outputDir' =
         Dir([ n \in DOMAIN outputDir.files \cup { << "shafts", "geojson" >>,
                                               << "pipes", "geojson" >> } |->
                 CASE n = << "shafts", "geojson" >> -> Geojson(Deref(heap, shafts))
                   [] n = << "pipes", "geojson" >> ->
                        Geojson(Deref(heap, line_geojson.features))
                   [] OTHER -> outputDir.files[n] ])
    /\ pc' = "finally"
    /\ UNCHANGED << script, raised, inputDir, processingDir, SewersLocals, OtherScripts >>

\* a library or file-system call inside the try block raises (lines 96-260)
PS_Raise ==
    /\ script = "prepareSewers"
    /\ pc \in { "convert", "load", "reproject", "save" }
    /\ Throw
    /\ UNCHANGED << script, inputDir, processingDir, outputDir, SewersLocals, OtherScripts >>

\* lines 263-266
PS_Finally ==
    /\ script = "prepareSewers" /\ pc = "finally"
    /\ processingDir' = Dir(EmptyFiles)
    /\ pc' = IF raised THEN "failed" ELSE "done"
    /\ UNCHANGED << script, raised, inputDir, outputDir, SewersLocals, OtherScripts >>

NextSewers ==
    \/ PS_PrepareDirs
    \/ PS_Convert
    \/ PS_LoadConverted
    \/ PS_RemoveSentinels
    \/ PS_AssignIds
    \/ PS_AddHeightOffset
    \/ PS_Partition
    \/ PS_CorrelateShafts
    \/ PS_CorrelatePipes
    \/ PS_Reproject
    \/ PS_Rename
    \/ PS_Save
    \/ PS_Raise
    \/ PS_Finally

SpecSewers == InitSewers /\ [][NextSewers]_vars


-----------------------------------------------------------------------------
(* prepareSewerData.py *)

\* MinStep testing "not m" in place of "m is None", so that a minimum of 0 is
\* taken for None, which C8 must tell from it
MinStepFalsy(m, x) ==
    LET m1 == IF m = << >> \/ m = << 0 >> THEN << x >> ELSE m
    IN  IF x >= m1[1] THEN m1 ELSE << x >>

\* one axis of the running minimum of calculateBbox: m is << >> for None,
\* << n >> for the number n
MinStep(m, x) ==
    LET m1 == IF m = << >> THEN << x >> ELSE m
    IN  IF x >= m1[1] THEN m1 ELSE << x >>

MaxStep(m, x) ==
    LET m1 == IF m = << >> THEN << x >> ELSE m
    IN  IF x <= m1[1] THEN m1 ELSE << x >>

NoBounds == [ min |-> << << >>, << >>, << >> >>, max |-> << << >>, << >>, << >> >> ]

\* lines 281-292 and 296-307: one vertex
BboxVertex(acc, c) ==
    [ min |-> [ a \in 1 .. 3 |-> MinStep(acc.min[a], c[a]) ],
      max |-> [ a \in 1 .. 3 |-> MaxStep(acc.max[a], c[a]) ] ]

RECURSIVE BboxRing(_, _, _)
BboxRing(acc, ring, i) ==
    IF i > Len(ring) THEN acc ELSE BboxRing(BboxVertex(acc, ring[i]), ring, i + 1)

\* BboxRings reading the outer ring only, which C9 must tell from it
BboxOuterRing(acc, rings, r) == BboxRing(acc, rings[1], 1)

\* lines 294-307: for poly in geometry["coordinates"]
RECURSIVE BboxRings(_, _, _)
BboxRings(acc, rings, r) ==
    IF r > Len(rings) THEN acc ELSE BboxRings(BboxRing(acc, rings[r], 1), rings, r + 1)

\* calculateBbox(geometry): [pMin, pMax], an ordinate being << >> when it is None
calculateBbox(geometry) ==
    LET acc == CASE geometry.type = "Point" ->
                        LET c == geometry.rings[1][1]
                        IN  [ min |-> [ a \in 1 .. 3 |-> << c[a] >> ],
                              max |-> [ a \in 1 .. 3 |-> << c[a] >> ] ]
                 [] geometry.type = "LineString" -> BboxRing(NoBounds, geometry.rings[1], 1)
                 [] geometry.type = "Polygon" -> BboxRings(NoBounds, geometry.rings, 1)
                 [] OTHER -> NoBounds
    IN  [ pMin |-> acc.min, pMax |-> acc.max ]

\* calculateBoundingBoxInfo(json): bboxReferences[id] = calculateBbox(geometry),
\* a later feature with the same id replacing an earlier one
\* a side file keyed by the feature's position in the list instead of its
\* id, which C11 must tell from calculateBoundingBoxInfo
calculateBoundingBoxInfoByPosition(fs) ==
    [ id \in DOMAIN fs |-> calculateBbox(fs[id].geometry) ]

calculateBoundingBoxInfo(fs) ==
    [ id \in { fs[i].properties["id"] : i \in DOMAIN fs } |->
        LET last == CHOOSE i \in DOMAIN fs :
                        /\ fs[i].properties["id"] = id
                        /\ \A j \in DOMAIN fs : fs[j].properties["id"] = id => j <= i
        IN  calculateBbox(fs[last].geometry) ]

\* line 81: Z < 100
BelowSentinel(f) == f.properties["Z"] < 10000

\* lines 89 and 209: Z > 0
HasZ(f) == f.properties["Z"] > 0

\* lines 216-232: the scan of all features from position k on, for the
\* feature at position i.  [ok, fs]: ok is FALSE when float(None) raised
RECURSIVE DeriveScan(_, _, _)
DeriveScan(fs, i, k) ==
    IF k > Len(fs) THEN [ ok |-> TRUE, fs |-> fs ]
    ELSE LET mine == fs[i].properties
             other == fs[k].properties
         IN  IF IsNone(other[N01]) THEN DeriveScan(fs, i, k + 1)
             ELSE IF /\ mine["X"] = other["X"]
                     /\ mine["Y"] = other["Y"]
                     /\ mine["Z"] = Float(other[N01]).v
                  THEN IF IsNone(other[N02])
                       THEN [ ok |-> FALSE, fs |-> fs ]
                       ELSE DeriveScan(
                              [ fs EXCEPT ![i].properties =
                                  [ @ EXCEPT ![N01] = Float(other[N01]),
                                             ![N02] = Float(other[N02]) ] ],
                              i, k + 1)
                  ELSE DeriveScan(fs, i, k + 1)

\* a filter that keeps every shaft, which C13 must tell from HasBothHeights
HeightsNotRequired(f) == TRUE

\* line 238
HasBothHeights(f) == ~ IsNone(f.properties[N01]) /\ ~ IsNone(f.properties[N02])

\* createGeojsonLineStringFeature without the offset on the bottom height and
\* without the shift of the second vertex, which C10 must tell from it
createGeojsonLineStringFeatureVertical(feature) ==
    LET c == feature.geometry.rings[1][1]
        coord_low == << c[1], c[2], feature.properties[N02].v >>
        coord_high == << c[1], c[2], feature.properties[N01].v + geoid_undulation >>
    IN  [ geometry |-> LineGeom(<< coord_low, coord_high >>),
          properties |-> feature.properties ]

\* createGeojsonLineStringFeature(feature); 0.000000000001 degree is one unit
\* of the horizontal ordinates
createGeojsonLineStringFeature(feature) ==
    LET c == feature.geometry.rings[1][1]
        coord_low == << c[1], c[2], feature.properties[N02].v + geoid_undulation >>
        coord_high == << c[1], c[2] + 1, feature.properties[N01].v + geoid_undulation >>
    IN  [ geometry |-> LineGeom(<< coord_low, coord_high >>),
          properties |-> feature.properties ]

\* createNewGeojsonFile(features, filename)
createNewGeojsonFile(fs) ==
    [ i \in DOMAIN fs |-> createGeojsonLineStringFeature(fs[i]) ]

\* lines 236-245 of deriveLineStringGeometries, after the loop: [ok, features];
\* ok is FALSE when a height still is a string (a string plus the offset raises)
DeriveLines(filtered) ==
    LET kept == Filter(filtered, HasBothHeights)
    IN  IF \E i \in DOMAIN kept :
               \/ kept[i].properties[N01].t = "str"
               \/ kept[i].properties[N02].t = "str"
        THEN [ ok |-> FALSE, features |-> << >> ]
        ELSE [ ok |-> TRUE, features |-> createNewGeojsonFile(kept) ]

\* the orders in which glob may list the files named by S
Orders(S) ==
    { o \in SeqsUpTo(S, Cardinality(S)) :
        Len(o) = Cardinality(S) /\ Range(o) = S }

\* contents of ./input the run may find
SewerDataInputs ==
    { [ k \in { "point" } |-> PointFile(ps) ] : ps \in SeqsUpTo(SewersPointRows, MaxPoints) }
    \cup { [ k \in { "line" } |-> LineFile(ls) ] : ls \in SewersLineInputs }
    \cup { [ k \in { "polygon" } |-> PolygonFile(pg) ] : pg \in PolygonInputs }
    \cup { [ k \in { "point", "line", "polygon" } |->
               CASE k = "point" -> PointFile(ps)
                 [] k = "line" -> LineFile(ls)
                 [] OTHER -> PolygonFile(pg) ] :
             ps \in SeqsUpTo(SewersPointRows, 1) \ { << >> },
             ls \in SewersLineInputs \ { << >> }, pg \in PolygonInputs }

\* files an earlier run over other input files left in ./output
StaleOutput ==
    Dir([ n \in { << "old_point", "geojson" >>, << "old_point", "bboxInfo.json" >> } |->
            IF n[2] = "geojson" THEN Geojson(<< >>) ELSE BboxInfo(<< >>) ])

InitSewerData ==
    /\ script = "prepareSewerData"
    /\ pc = "start"
    /\ raised = FALSE
    /\ inputDir \in SewerDataInputs
    /\ processingDir = AbsentDir
    /\ outputDir \in { Dir(EmptyFiles), StaleOutput }
    /\ heap = << >>
    /\ point_geojson = NoCollection
    /\ line_geojson = NoCollection
    /\ shafts = << >>
    /\ txt_blocks = << >>
    /\ json_data = << >>
    /\ derived = NoCollection
    /\ todo = << >>
    /\ idx = 0
    /\ listing = << >>
    /\ current = "none"
    /\ db = Idle
    /\ report = Idle
    /\ config = Idle
    /\ os_sep = "/"
    /\ runs = 0
    /\ firstLoad = Idle
    /\ bbox_arg = Idle
    /\ bbox_result = Idle

\* the file written by f(name) or kept
WriteFile(dir, name, content) ==
    Dir([ n \in DOMAIN dir.files \cup { name } |->
            IF n = name THEN content ELSE dir.files[n] ])

DataFrame == << script, inputDir, processingDir, point_geojson, line_geojson,
                txt_blocks, listing, db, report, config, os_sep, runs, firstLoad,
               bbox_arg, bbox_result >>
DataLocals == << heap, shafts, idx >>

\* an exception leaves main(): prepareSewerData.py has no try block
Die ==
    /\ pc' = "failed"
    /\ raised' = TRUE

\* lines 32-37
PSD_CleanOutput ==
    /\ script = "prepareSewerData" /\ pc = "start"
    /\ outputDir' = Dir([ n \in { m \in DOMAIN outputDir.files : m[2] # "geojson" } |->
                            outputDir.files[n] ])
    /\ todo' \in Orders(DOMAIN inputDir)
    /\ pc' = "loop"
    /\ UNCHANGED << DataFrame, DataLocals, raised, json_data, derived, current >>

\* line 39: the next file of the loop, or the end of main()
PSD_NextFile ==
    /\ script = "prepareSewerData" /\ pc = "loop"
    /\ IF todo = << >>
       THEN pc' = "done" /\ UNCHANGED << todo, current >>
       ELSE pc' = "convert" /\ current' = Head(todo) /\ todo' = Tail(todo)
    /\ UNCHANGED << DataFrame, DataLocals, raised, outputDir, json_data, derived >>

\* lines 40-63: the shapefile is translated and reprojected into ./output and read back
PSD_Convert ==
    /\ script = "prepareSewerData" /\ pc = "convert"
    /\ json_data' = reprojectToWGS84(inputDir[current])
    /\ outputDir' = WriteFile(outputDir, << current, "geojson" >>, Geojson(json_data'))
    /\ derived' = NoCollection
    /\ pc' = "offset"
    /\ UNCHANGED << DataFrame, DataLocals, raised, todo, current >>

\* gdal.VectorTranslate raises (line 46)
PSD_Raise ==
    /\ script = "prepareSewerData" /\ pc = "convert"
    /\ Die
    /\ UNCHANGED << DataFrame, DataLocals, outputDir, json_data, derived, todo, current >>

\* line 66
PSD_AddHeightOffset ==
    /\ script = "prepareSewerData" /\ pc = "offset"
    /\ json_data' = addHeightOffset(json_data)
    /\ pc' = "ids"
    /\ UNCHANGED << DataFrame, DataLocals, raised, outputDir, derived, todo, current >>

\* lines 67-71
PSD_AssignIds ==
    /\ script = "prepareSewerData" /\ pc = "ids"
    /\ json_data' = AssignIds(json_data)
    /\ pc' = "shafts"
    /\ UNCHANGED << DataFrame, DataLocals, raised, outputDir, derived, todo, current >>

\* lines 73-87 and 208-209: the point file is filtered, deep-copied (heap)
\* and the copies with Z > 0 selected (shafts)
PSD_BeginShafts ==
    /\ script = "prepareSewerData" /\ pc = "shafts"
    /\ IF json_data = << >>
       THEN Die /\ UNCHANGED << json_data, heap, shafts, idx >>
       ELSE IF json_data[1].geometry.type = "Point"
       THEN /\ json_data' = Filter(json_data, BelowSentinel)
            /\ heap' = json_data'
            /\ shafts' = KeepRefs(heap', RefsFrom(0, Len(heap')), HasZ)
            /\ idx' = 1
            /\ pc' = "derive"
            /\ UNCHANGED raised
       ELSE pc' = "bbox" /\ UNCHANGED << raised, json_data, heap, shafts, idx >>
    /\ UNCHANGED << DataFrame, outputDir, derived, todo, current >>

\* a derivation that scans the features of json_data themselves instead of
\* the deep copy of line 208, which C22 must tell from PSD_Derive
PSD_DeriveInPlace ==
    /\ script = "prepareSewerData" /\ pc = "derive"
    /\ IF idx <= Len(shafts)
       THEN LET r == DeriveScan(heap, shafts[idx], 1)
            IN  IF r.ok
                THEN /\ heap' = r.fs
                     /\ idx' = idx + 1
                     /\ UNCHANGED << pc, raised, json_data, derived >>
                ELSE Die /\ UNCHANGED << heap, idx, json_data, derived >>
       ELSE LET lines == DeriveLines(Deref(heap, shafts))
            IN  IF lines.ok
                THEN /\ derived' = Collection(lines.features)
                     /\ json_data' = Filter(heap, HasZ)
                     /\ pc' = "bbox"
                     /\ UNCHANGED << raised, heap, idx >>
                ELSE Die /\ UNCHANGED << heap, idx, json_data, derived >>
    /\ UNCHANGED << DataFrame, shafts, outputDir, todo, current >>

\* lines 213-245 and 89: one feature with Z > 0 per step, then the derived
\* collection is built and the points without Z are removed
PSD_Derive ==
    /\ script = "prepareSewerData" /\ pc = "derive"
    /\ IF idx <= Len(shafts)
       THEN LET r == DeriveScan(heap, shafts[idx], 1)
            IN  IF r.ok
                THEN /\ heap' = r.fs
                     /\ idx' = idx + 1
                     /\ UNCHANGED << pc, raised, json_data, derived >>
                ELSE Die /\ UNCHANGED << heap, idx, json_data, derived >>
       ELSE LET lines == DeriveLines(Deref(heap, shafts))
            IN  IF lines.ok
                THEN /\ derived' = Collection(lines.features)
                     /\ json_data' = Filter(json_data, HasZ)
                     /\ pc' = "bbox"
                     /\ UNCHANGED << raised, heap, idx >>
                ELSE Die /\ UNCHANGED << heap, idx, json_data, derived >>
    /\ UNCHANGED << DataFrame, shafts, outputDir, todo, current >>

AsLines(stem) == IF stem = "point" THEN "point_as_lines" ELSE "as_lines"

\* lines 92-106
PSD_WriteBbox ==
    /\ script = "prepareSewerData" /\ pc = "bbox"
    /\ LET d1 == WriteFile(outputDir, << current, "bboxInfo.json" >>,
                           BboxInfo(calculateBoundingBoxInfo(json_data)))
       IN  outputDir' =
             IF derived.isNone THEN d1
             ELSE WriteFile(d1, << AsLines(current), "bboxInfo.json" >>,
                            BboxInfo(calculateBoundingBoxInfo(derived.features)))
    /\ pc' = "save"
    /\ UNCHANGED << DataFrame, DataLocals, raised, json_data, derived, todo, current >>

\* lines 108-117
PSD_Save ==
    /\ script = "prepareSewerData" /\ pc = "save"
    /\ LET d1 == WriteFile(outputDir, << current, "geojson" >>, Geojson(json_data))
       IN  outputDir' =
             IF derived.isNone THEN d1
             ELSE WriteFile(d1, << AsLines(current), "geojson" >>, Geojson(derived.features))
    /\ pc' = "loop"
    /\ UNCHANGED << DataFrame, DataLocals, raised, json_data, derived, todo, current >>

NextSewerData ==
    \/ PSD_CleanOutput
    \/ PSD_NextFile
    \/ PSD_Convert
    \/ PSD_Raise
    \/ PSD_AddHeightOffset
    \/ PSD_AssignIds
    \/ PSD_BeginShafts
    \/ PSD_Derive
    \/ PSD_WriteBbox
    \/ PSD_Save

SpecSewerData == InitSewerData /\ [][NextSewerData]_vars


-----------------------------------------------------------------------------
(* Both preparation scripts *)

InitPrep == InitSewers \/ InitSewerData
NextPrep == NextSewers \/ NextSewerData
SpecPrep == InitPrep /\ [][NextPrep]_vars

\* the FeatureCollections in ./output once the run has completed
WrittenCollections ==
    IF pc = "done" /\ outputDir.kind = "dir"
    THEN { n \in DOMAIN outputDir.files : outputDir.files[n].kind = "geojson" }
    ELSE {}

Features(n) == outputDir.files[n].features

IdAt(fs, i) == fs[i].properties["id"]

\* the source feature a written feature was converted from
SourceKind(n) ==
    CASE n[1] \in { "shafts", "point", "point_as_lines" } -> "point"
      [] n[1] \in { "pipes", "line" } -> "line"
      [] OTHER -> "polygon"

Source(n, f) == inputDir[SourceKind(n)][f.properties["dwg_handle"]]

\* C1 as stated: in every written collection of n features the ids are
\* exactly 1..n, in order
C1_GapFree ==
    \A n \in WrittenCollections :
        \A i \in DOMAIN Features(n) : IdAt(Features(n), i) = i

\* the number of source features up to position h that pass both sentinel
\* filters of prepareSewers.py (lines 124-125)
SurvivorRank(src, h) ==
    Cardinality({ j \in 1 .. h : NotSentinelZ(src[j]) /\ NotSentinelCover(src[j]) })

\* C1 (amended): in every written collection the ids are unique integers >= 1
\* that increase strictly in input iteration order.  An id is the feature's
\* position among the features present when ids are assigned: in
\* prepareSewers.py the points that passed the two sentinel filters, in
\* prepareSewerData.py all converted features.  Features removed after id
\* assignment leave gaps; collections that are not filtered afterwards (pipes,
\* line and polygon files) have exactly the ids 1..n.
C1_IdsUniqueIncreasing ==
    \A n \in WrittenCollections :
        LET fs == Features(n)
        IN  /\ \A i \in DOMAIN fs : IdAt(fs, i) >= 1
            /\ \A i, j \in DOMAIN fs : i < j => IdAt(fs, i) < IdAt(fs, j)
            /\ \A i \in DOMAIN fs :
                 IdAt(fs, i) =
                    IF n[1] = "shafts"
                    THEN SurvivorRank(inputDir["point"], fs[i].properties["dwg_handle"])
                    ELSE fs[i].properties["dwg_handle"]
            /\ SourceKind(n) # "point" => \A i \in DOMAIN fs : IdAt(fs, i) = i

\* a completed run wrote a point collection whose first feature has an id > 1
C1_Witness ==
    \E n \in WrittenCollections :
        /\ SourceKind(n) = "point"
        /\ Features(n) # << >>
        /\ IdAt(Features(n), 1) > 1


Height(f, r, j) == f.geometry.rings[r][j][3]

\* the collections converted from an input file (not the derived shaft lines)
ConvertedCollections == { n \in WrittenCollections : n[1] # "point_as_lines" }

\* C3 as stated: every vertex of every written feature has the converted
\* input height plus geoid_undulation
C3_EveryVertexOffsetOnce ==
    \A n \in ConvertedCollections :
        \A i \in DOMAIN Features(n) :
            LET f == Features(n)[i]
            IN  \A r \in DOMAIN f.geometry.rings :
                    \A j \in DOMAIN f.geometry.rings[r] :
                        Height(f, r, j) = Height(Source(n, f), r, j) + geoid_undulation

\* C3 (amended): in every collection converted from an input file, the height
\* of every vertex of a Point, of a LineString and of the outer ring of a
\* Polygon is the converted input height plus geoid_undulation, added exactly
\* once; the vertices of the inner rings of a Polygon are written with the
\* converted input height, without the offset.
C3_OffsetOnceOuterRing ==
    \A n \in ConvertedCollections :
        \A i \in DOMAIN Features(n) :
            LET f == Features(n)[i]
            IN  \A r \in DOMAIN f.geometry.rings :
                    \A j \in DOMAIN f.geometry.rings[r] :
                        Height(f, r, j) =
                            Height(Source(n, f), r, j)
                               + (IF r = 1 THEN geoid_undulation ELSE 0)

\* a completed run wrote a Polygon with an inner ring: its outer ring carries
\* the offset and its inner ring does not
C3_Witness ==
    \E n \in ConvertedCollections :
        \E i \in DOMAIN Features(n) :
            LET f == Features(n)[i]
            IN  /\ f.geometry.type = "Polygon"
                /\ Len(f.geometry.rings) >= 2
                /\ Height(f, 1, 1) = Height(Source(n, f), 1, 1) + geoid_undulation
                /\ Height(f, 2, 1) = Height(Source(n, f), 2, 1)

Max(S) == CHOOSE x \in S : \A y \in S : y <= x
Min(S) == CHOOSE x \in S : \A y \in S : x <= y

\* positions of the labels of txt_blocks with the X and Y of shaft s
LabelsAt(s) ==
    { k \in DOMAIN txt_blocks :
        /\ heap[txt_blocks[k]].properties["X"] = heap[s].properties["X"]
        /\ heap[txt_blocks[k]].properties["Y"] = heap[s].properties["Y"] }

\* the shaft s carries, after the step, the attributes of the object t
CarriesShaftAttributes(s, t) ==
    /\ \A k \in ShaftCopiedKeys : heap'[s].properties[k] = heap'[t].properties[k]
    /\ \A k \in ShaftFloatKeys :
         heap'[s].properties[k] = FloatOrNone(heap'[t].properties[k])

\* one iteration of the shaft loop of prepareSewers.py
SewersShaftStep == script = "prepareSewers" /\ pc = "shafts" /\ idx <= Len(shafts)

\* one completed iteration of the loop of deriveLineStringGeometries
DataShaftStep ==
    /\ script = "prepareSewerData" /\ pc = "derive"
    /\ idx <= Len(shafts) /\ idx' = idx + 1

\* the features of the copied collection with the X and Y of feature s that
\* are labels (layer name containing "_TXT")
DataLabelsAt(s) ==
    { k \in DOMAIN heap :
        /\ heap[k].properties["Layer"] \in TxtLayers
        /\ heap[k].properties["X"] = heap[s].properties["X"]
        /\ heap[k].properties["Y"] = heap[s].properties["Y"] }

\* the features of the copied collection that deriveLineStringGeometries
\* matches with feature s: a cover height, the same X and Y, and the cover
\* height equal to the Z of s
DataMatchesOf(s) ==
    { k \in DOMAIN heap :
        /\ ~ IsNone(heap[k].properties[N01])
        /\ heap[k].properties["X"] = heap[s].properties["X"]
        /\ heap[k].properties["Y"] = heap[s].properties["Y"]
        /\ heap[k].properties[N01].v = heap[s].properties["Z"] }

CarriesHeights(s, t) ==
    /\ heap'[s].properties[N01] = Float(heap'[t].properties[N01])
    /\ heap'[s].properties[N02] = Float(heap'[t].properties[N02])

\* C4 as stated: whenever two or more labels have the X and Y of a shaft, the
\* shaft has, after its scan, the attributes of the last of them
C4_LastLabelAtXYWins ==
    [][ /\ SewersShaftStep /\ Cardinality(LabelsAt(shafts[idx])) >= 2
           => CarriesShaftAttributes(shafts[idx], txt_blocks[Max(LabelsAt(shafts[idx]))])
        /\ DataShaftStep /\ Cardinality(DataLabelsAt(shafts[idx])) >= 2
           => CarriesHeights(shafts[idx], Max(DataLabelsAt(shafts[idx]))) ]_vars

\* C4 (amended): shaft/label correlation is last-match-wins, a match being what
\* each script tests.  In prepareSewers.py a label (_TXT point) matches when
\* its X and Y equal the shaft's; in deriveLineStringGeometries
\* (prepareSewerData.py) a feature matches when it has a cover height
\* E0101.N01_%, its X and Y equal the shaft's and its cover height equals the
\* shaft's Z.  When one or more features match, the shaft has after its scan
\* the attributes of the last match in iteration order; the scan never stops
\* early.
C4_LastMatchWins ==
    [][ /\ SewersShaftStep /\ LabelsAt(shafts[idx]) # {}
           => CarriesShaftAttributes(shafts[idx], txt_blocks[Max(LabelsAt(shafts[idx]))])
        /\ DataShaftStep /\ DataMatchesOf(shafts[idx]) # {}
           => CarriesHeights(shafts[idx], Max(DataMatchesOf(shafts[idx]))) ]_vars

\* a shaft of prepareSewers.py has been scanned that has two labels of
\* different colour at its X and Y, neither being the shaft itself
C4_Witness ==
    /\ script = "prepareSewers" /\ pc = "shafts" /\ idx > 1
    /\ LET s == shafts[idx - 1]
       IN  \E a, b \in LabelsAt(s) :
              /\ a < b /\ b = Max(LabelsAt(s))
              /\ txt_blocks[a] # s /\ txt_blocks[b] # s
              /\ heap[txt_blocks[a]].properties["Color"]
                   # heap[txt_blocks[b]].properties["Color"]
              /\ heap[s].properties["Color"] = heap[txt_blocks[b]].properties["Color"]


\* one iteration of the pipe loop of prepareSewers.py
SewersPipeStep ==
    script = "prepareSewers" /\ pc = "pipes" /\ idx <= Len(line_geojson.features)

\* the label t is a candidate for the pipe p: a declared length, within
\* epsilon of the pipe's 2D length, and a point closer than buffer_distance
\* to the line
DeclaredLengthFits(p, t) ==
    LET declared == heap[t].properties[L03]
        computed == getLinestringLength2D(heap[p].geometry.rings[1])
    IN  /\ declared # Null
        /\ Round2(declared.v) >= computed - epsilon
        /\ Round2(declared.v) <= computed + epsilon

InsideBuffer(p, t) ==
    LET coords == heap[p].geometry.rings[1]
        q == << heap[t].properties["X"], heap[t].properties["Y"] >>
    IN  \E i \in 1 .. Len(coords) - 1 :
            NearSegment(q, coords[i], coords[i + 1], buffer_distance)

CandidatesOf(p) ==
    { k \in DOMAIN txt_blocks :
        DeclaredLengthFits(p, txt_blocks[k]) /\ InsideBuffer(p, txt_blocks[k]) }

CarriesPipeAttributes(p, t) ==
    /\ \A k \in PipeCopiedKeys : heap'[p].properties[k] = heap[t].properties[k]
    /\ \A k \in PipeFloatKeys :
         heap'[p].properties[k] = FloatOrNone(heap[t].properties[k])

\* C5: pipe/label correlation is first-match-wins.  A label is a candidate only
\* if its declared length is non-null and within the tolerance of the pipe's
\* 2D length and its point lies inside the buffer; a pipe with candidates has
\* after its scan the attributes of the first candidate in iteration order,
\* whatever the later labels hold, and a pipe without candidates takes no
\* attribute of any label.
C5_FirstCandidateWins ==
    [][ SewersPipeStep =>
          LET p == line_geojson.features[idx]
          IN  IF CandidatesOf(p) # {}
              THEN CarriesPipeAttributes(p, txt_blocks[Min(CandidatesOf(p))])
              ELSE heap'[p].properties =
                     SetProp(SetProp(heap[p].properties, "Color", DefaultColor),
                             D05, DefaultDiameter) ]_vars

\* a pipe has been scanned that has two candidates of different colour, after
\* a label that fits in length but lies outside the buffer
C5_Witness ==
    /\ script = "prepareSewers" /\ pc = "pipes" /\ idx > 1
    /\ LET p == line_geojson.features[idx - 1]
       IN  /\ \E a, b \in CandidatesOf(p) :
                 /\ a = Min(CandidatesOf(p)) /\ a < b
                 /\ heap[txt_blocks[a]].properties["Color"]
                      # heap[txt_blocks[b]].properties["Color"]
                 /\ heap[p].properties["Color"] = heap[txt_blocks[a]].properties["Color"]
           /\ \E k \in DOMAIN txt_blocks :
                 /\ k < Min(CandidatesOf(p))
                 /\ DeclaredLengthFits(p, txt_blocks[k])
                 /\ ~ InsideBuffer(p, txt_blocks[k])

-----------------------------------------------------------------------------
(* insertSewerDataIntoDB.py and insertSewersIntoDB.py: the output files of a
   preparation script are loaded into MongoDB.  A collection name is the
   sequence of its dot-separated parts.  Documents are modelled by the content
   read from the file; the _id the driver adds to a document is not part of
   it. *)

MaxDocs == 5

InsertScripts == { "insertSewerDataIntoDB", "insertSewersIntoDB" }

\* what MongoDB requires of a geometry stored under a 2dsphere index, which
\* looks at longitude and latitude only: a LineString has two or more
\* vertices and no two consecutive vertices at the same position, a Polygon
\* ring is closed and has four or more vertices
SamePosition(a, b) == a[1] = b[1] /\ a[2] = b[2]

Indexable(geometry) ==
    CASE geometry.type = "Point" -> TRUE
      [] geometry.type = "LineString" ->
            LET vs == geometry.rings[1]
            IN  /\ Len(vs) >= 2
                /\ \A i \in 1 .. Len(vs) - 1 : ~ SamePosition(vs[i], vs[i + 1])
      [] OTHER ->
            \A r \in DOMAIN geometry.rings :
                LET vs == geometry.rings[r]
                IN  Len(vs) >= 4 /\ SamePosition(vs[1], vs[Len(vs)])

\* a path below input_path, and file_path.split("\\")[-1]: the file's name
\* where paths are separated by "\\", the whole path elsewhere
PathOf(name) == [ dir |-> "output", base |-> name ]

Filename(file_path) ==
    IF os_sep = "\\" THEN [ dir |-> "", base |-> file_path.base ] ELSE file_path

\* the stems of the known file names that a stem ends with
Endings(stem) ==
    CASE stem = "old_point" -> { "old_point", "point" }
      [] OTHER -> { stem }

\* key in filename (insertSewerDataIntoDB.py); the directory part of a path
\* holds none of the keys
Contains(filename, key) ==
    /\ filename.base[2] = key[2]
    /\ key[1] \in Endings(filename.base[1])

\* filename == key (insertSewersIntoDB.py)
IsNamed(filename, key) == filename.dir = "" /\ filename.base = key

Suffix(parts, bbox) == [ known |-> TRUE, collection_suffix |-> parts, is_bbox_file |-> bbox ]
UnknownName == [ known |-> FALSE, collection_suffix |-> << >>, is_bbox_file |-> FALSE ]

\* insertSewerDataIntoDB.py lines 35-67
SewerDataSuffix(filename) ==
    IF Contains(filename, << "point", "geojson" >>) THEN Suffix(<< "shafts" >>, FALSE)
    ELSE IF Contains(filename, << "point", "bboxInfo.json" >>)
    THEN Suffix(<< "shafts", "bboxInfo" >>, TRUE)
    ELSE IF Contains(filename, << "point_as_lines", "geojson" >>)
    THEN Suffix(<< "shaftsAsLines" >>, FALSE)
    ELSE IF Contains(filename, << "point_as_lines", "bboxInfo.json" >>)
    THEN Suffix(<< "shaftsAsLines", "bboxInfo" >>, TRUE)
    ELSE IF Contains(filename, << "line", "geojson" >>) THEN Suffix(<< "pipes" >>, FALSE)
    ELSE IF Contains(filename, << "line", "bboxInfo.json" >>)
    THEN Suffix(<< "pipes", "bboxInfo" >>, TRUE)
    ELSE IF Contains(filename, << "polygon", "geojson" >>) THEN Suffix(<< "polygon" >>, FALSE)
    ELSE IF Contains(filename, << "polygon", "bboxInfo.json" >>)
    THEN Suffix(<< "polygon", "bboxInfo" >>, TRUE)
    ELSE UnknownName

\* insertSewersIntoDB.py lines 35-46
SewersSuffix(filename) ==
    IF IsNamed(filename, << "shafts", "geojson" >>) THEN Suffix(<< "shafts" >>, FALSE)
    ELSE IF IsNamed(filename, << "pipes", "geojson" >>) THEN Suffix(<< "pipes" >>, FALSE)
    ELSE IF IsNamed(filename, << "pipes", "bboxInfo.json" >>)
    THEN Suffix(<< "pipes", "bboxInfo" >>, TRUE)
    ELSE UnknownName

SuffixOf(file_path) ==
    IF script = "insertSewersIntoDB" THEN SewersSuffix(Filename(file_path))
    ELSE SewerDataSuffix(Filename(file_path))

\* config["collection"] + "." + collection_suffix
CollectionName(file_path) == << config.collection >> \o SuffixOf(file_path).collection_suffix

\* a back-reference that keeps the whole collection name, which C23 must
\* tell from ReplaceBboxInfo
KeepBboxInfo(name) == name

\* collection.name.replace(".bboxInfo", "")
ReplaceBboxInfo(name) ==
    << name[1] >> \o SelectSeq(Tail(name), LAMBDA part : part # "bboxInfo")

\* the documents of a collection, none if the database has no such collection
DocsOf(d, name) == IF name \in DOMAIN d THEN d[name].docs ELSE << >>

\* DropCollection that drops nothing, which C6 must tell from it
KeepCollection(d, name) == d

\* db[collection_name].drop() if collection_name in db.list_collection_names()
DropCollection(d, name) == [ n \in DOMAIN d \ { name } |-> d[n] ]

\* collection.create_index([("geometry", GEOSPHERE)]) creates the collection
\* if the database has none of that name
CreateIndex(d, name) ==
    [ n \in DOMAIN d \cup { name } |->
        IF n = name THEN [ docs |-> DocsOf(d, name), indexed |-> TRUE ] ELSE d[n] ]

InsertDocs(d, name, docs) ==
    [ n \in DOMAIN d \cup { name } |->
        IF n = name
        THEN [ docs |-> DocsOf(d, name) \o docs,
               indexed |-> name \in DOMAIN d /\ d[name].indexed ]
        ELSE d[n] ]

\* file_content["collectionName"] = collection.name.replace(".bboxInfo", "")
BboxDocument(file_content, name) ==
    [ bboxReferences |-> file_content.bboxReferences,
      collectionName |-> ReplaceBboxInfo(name) ]

NoReport == [ kind |-> "none", inserted |-> 0, writeErrors |-> << >> ]

\* collection.bulk_write(bulk_arr) and what the script prints of its outcome.
\* bulk_write is called without ordered=False: the driver's default executes
\* the operations in order and stops at the first that fails, the
\* BulkWriteError naming that one operation by its index (from 0).
BulkWrite(docs) ==
    LET bad == { i \in DOMAIN docs : ~ Indexable(docs[i].geometry) }
    IN  IF bad = {}
        THEN [ inserted |-> docs,
               report |-> [ kind |-> "result", inserted |-> Len(docs),
                            writeErrors |-> << >> ] ]
        ELSE LET first == CHOOSE i \in bad : \A j \in bad : i <= j
             IN  [ inserted |-> SubSeq(docs, 1, first - 1),
                   report |-> [ kind |-> "BulkWriteError", inserted |-> first - 1,
                                writeErrors |-> << first - 1 >> ] ]

\* the extensions of the names that '*.geojson' and '*.json' match
GeojsonPattern == { "geojson" }
JsonPattern == { "json", "bboxInfo.json" }

\* glob.glob(os.path.join(input_path, pattern)), in the directory's order
Glob(pattern) ==
    LET names == SelectSeq(listing, LAMBDA name : name[2] \in pattern)
    IN  [ i \in DOMAIN names |-> PathOf(names[i]) ]

(* Inputs of the insert scripts *)

\* a pipe as a preparation script writes it; a pipe of length zero has the
\* same vertex twice
PipeDoc(i, sound) ==
    LET from == ToWgs84(<< 0, 0, geoid_undulation >>)
        to == ToWgs84(<< IF sound THEN 40 ELSE 0, 0, geoid_undulation >>)
    IN  [ LineFeature(i, << from, to >>) EXCEPT !.properties = SetProp(@, "id", i) ]

PipeDocs(pattern) == [ i \in DOMAIN pattern |-> PipeDoc(i, pattern[i]) ]

ShaftDoc(i) ==
    [ geometry |-> PointGeom(ToWgs84(<< i, 0, 500 + geoid_undulation >>)),
      properties |-> [ k \in { "id" } |-> i ] ]

\* the line prepareSewerData.py derives from a shaft with cover height 5.00
\* and bottom height 2.00
ShaftLineDoc(i) ==
    createGeojsonLineStringFeature(
        [ geometry |-> ShaftDoc(i).geometry,
          properties |-> [ k \in { "id", N01, N02 } |->
                             CASE k = "id" -> i
                               [] k = N01 -> Num(500)
                               [] OTHER -> Num(200) ] ])

File(name, content) == [ n \in { name } |-> content ]

Merge(f, g) == [ n \in DOMAIN f \cup DOMAIN g |-> IF n \in DOMAIN f THEN f[n] ELSE g[n] ]

LoadDirs(sc) ==
    LET pipes == IF sc = "insertSewersIntoDB" THEN "pipes" ELSE "line"
        points == IF sc = "insertSewersIntoDB" THEN "shafts" ELSE "point"
    IN  { AbsentDir } \cup
        UNION { LET lines == File(<< pipes, "geojson" >>, Geojson(PipeDocs(pattern)))
                    bbox == File(<< pipes, "bboxInfo.json" >>,
                                 BboxInfo(calculateBoundingBoxInfo(PipeDocs(pattern))))
                    shaftFile == File(<< points, "geojson" >>,
                                      Geojson(<< ShaftDoc(1), ShaftDoc(2) >>))
                    old == File(<< "old_point", "geojson" >>, Geojson(<< ShaftDoc(3) >>))
                    notes == File(<< "notes", "json" >>, [ kind |-> "json" ])
                IN  { Dir(lines), Dir(Merge(lines, bbox)), Dir(Merge(lines, notes)),
                      Dir(Merge(lines, Merge(shaftFile, old))) }
              : pattern \in SeqsUpTo(BOOLEAN, MaxDocs) }
        \cup
        { LET asLines == << ShaftLineDoc(1), ShaftLineDoc(2) >>
          IN  Dir(Merge(File(<< points, "geojson" >>, Geojson(<< ShaftDoc(1), ShaftDoc(2) >>)),
                  Merge(File(<< "point_as_lines", "geojson" >>, Geojson(asLines)),
                        File(<< "point_as_lines", "bboxInfo.json" >>,
                             BboxInfo(calculateBoundingBoxInfo(asLines)))))) }

\* a database that earlier loads have filled
StaleDb ==
    [ n \in { << "sewers", "pipes" >>, << "sewers", "shafts" >>,
              << "sewers", "polygon" >> } |->
        [ docs |-> IF n[2] = "pipes" THEN << PipeDoc(9, TRUE) >> ELSE << ShaftDoc(9) >>,
          indexed |-> TRUE ] ]

InitLoad ==
    /\ script \in InsertScripts
    /\ pc = "start"
    /\ raised = FALSE
    /\ inputDir = EmptyFiles
    /\ processingDir = AbsentDir
    /\ outputDir \in LoadDirs(script)
    /\ heap = << >>
    /\ point_geojson = NoCollection
    /\ line_geojson = NoCollection
    /\ shafts = << >>
    /\ txt_blocks = << >>
    /\ json_data = << >>
    /\ derived = NoCollection
    /\ todo = << >>
    /\ idx = 0
    /\ listing \in Orders(DOMAIN outputDir.files)
    /\ current = PathOf(<< "", "" >>)
    /\ db \in { EmptyFiles, StaleDb }
    /\ report = NoReport
    /\ config \in { [ isFile |-> b, collection |-> "sewers" ] : b \in BOOLEAN }
    /\ os_sep \in { "\\", "/" }
    /\ runs = 1
    /\ firstLoad = EmptyFiles
    /\ bbox_arg = Idle
    /\ bbox_result = Idle

LoadFrame == << script, inputDir, processingDir, outputDir, SewersLocals, json_data,
                derived, listing, config, os_sep, bbox_arg, bbox_result >>

\* a readConfig() that returns without a config file, which C18 must tell
\* from Load_ReadConfig
Load_ReadConfigLenient ==
    /\ script \in InsertScripts /\ pc = "start"
    /\ pc' = "glob"
    /\ UNCHANGED << LoadFrame, raised, todo, current, db, report, runs, firstLoad >>

\* readConfig(): raise("No config file found.") raises, a TypeError
Load_ReadConfig ==
    /\ script \in InsertScripts /\ pc = "start"
    /\ IF config.isFile THEN pc' = "glob" /\ UNCHANGED raised ELSE Die
    /\ UNCHANGED << LoadFrame, todo, current, db, report, runs, firstLoad >>

\* files_to_process: the *.geojson files, then the *.json files
Load_Glob ==
    /\ script \in InsertScripts /\ pc = "glob"
    /\ todo' = Glob(GeojsonPattern) \o Glob(JsonPattern)
    /\ pc' = "files"
    /\ UNCHANGED << LoadFrame, raised, current, db, report, runs, firstLoad >>

\* an iteration without the except clause of lines 104-113, in which a
\* BulkWriteError leaves main(); C16 must tell it from Load_File
Load_FileUncaught ==
    /\ script \in InsertScripts /\ pc = "files" /\ todo # << >>
    /\ LET file_path == Head(todo)
           suffix == SuffixOf(file_path)
           name == CollectionName(file_path)
           content == outputDir.files[file_path.base]
           dropped == DropCollection(db, name)
       IN  /\ current' = file_path
           /\ todo' = Tail(todo)
           /\ IF ~ suffix.known
              THEN Die /\ UNCHANGED << db, report >>
              ELSE IF suffix.is_bbox_file
              THEN /\ db' = InsertDocs(dropped, name, << BboxDocument(content, name) >>)
                   /\ UNCHANGED << pc, raised, report >>
              ELSE IF content.features = << >>
              THEN /\ db' = CreateIndex(dropped, name)
                   /\ Die
                   /\ UNCHANGED report
              ELSE LET outcome == BulkWrite(content.features)
                   IN  /\ db' = InsertDocs(CreateIndex(dropped, name), name,
                                           outcome.inserted)
                       /\ IF outcome.report.kind = "BulkWriteError"
                          THEN Die /\ UNCHANGED report
                          ELSE report' = outcome.report /\ UNCHANGED << pc, raised >>
    /\ UNCHANGED << LoadFrame, runs, firstLoad >>

\* an iteration that takes the collection object and indexes it before the
\* file name is looked at; C17 must tell it from Load_File
Load_FileNameCheckedLate ==
    /\ script \in InsertScripts /\ pc = "files" /\ todo # << >>
    /\ LET file_path == Head(todo)
           suffix == SuffixOf(file_path)
           name == CollectionName(file_path)
           content == outputDir.files[file_path.base]
           dropped == DropCollection(db, name)
       IN  /\ current' = file_path
           /\ todo' = Tail(todo)
           /\ IF ~ suffix.known
              THEN Die /\ db' = CreateIndex(dropped, name) /\ UNCHANGED report
              ELSE IF suffix.is_bbox_file
              THEN /\ db' = InsertDocs(dropped, name, << BboxDocument(content, name) >>)
                   /\ UNCHANGED << pc, raised, report >>
              ELSE IF content.features = << >>
              THEN /\ db' = CreateIndex(dropped, name)
                   /\ Die
                   /\ UNCHANGED report
              ELSE LET outcome == BulkWrite(content.features)
                   IN  /\ db' = InsertDocs(CreateIndex(dropped, name), name,
                                           outcome.inserted)
                       /\ report' = outcome.report
                       /\ UNCHANGED << pc, raised >>
    /\ UNCHANGED << LoadFrame, runs, firstLoad >>

\* one iteration of for file_path in files_to_process
Load_File ==
    /\ script \in InsertScripts /\ pc = "files" /\ todo # << >>
    /\ LET file_path == Head(todo)
           suffix == SuffixOf(file_path)
           name == CollectionName(file_path)
           content == outputDir.files[file_path.base]
           dropped == DropCollection(db, name)
       IN  /\ current' = file_path
           /\ todo' = Tail(todo)
           /\ IF ~ suffix.known
              THEN Die /\ UNCHANGED << db, report >>
              ELSE IF suffix.is_bbox_file
              THEN /\ db' = InsertDocs(dropped, name, << BboxDocument(content, name) >>)
                   /\ UNCHANGED << pc, raised, report >>
              ELSE IF content.features = << >>
              THEN \* bulk_write([]) raises InvalidOperation, which is not caught
                   /\ db' = CreateIndex(dropped, name)
                   /\ Die
                   /\ UNCHANGED report
              ELSE LET outcome == BulkWrite(content.features)
                   IN  /\ db' = InsertDocs(CreateIndex(dropped, name), name,
                                           outcome.inserted)
                       /\ report' = outcome.report
                       /\ UNCHANGED << pc, raised >>
    /\ UNCHANGED << LoadFrame, runs, firstLoad >>

Load_End ==
    /\ script \in InsertScripts /\ pc = "files" /\ todo = << >>
    /\ pc' = "done"
    /\ UNCHANGED << LoadFrame, raised, todo, current, db, report, runs, firstLoad >>

\* the script is run again on the same ./output
Load_Rerun ==
    /\ script \in InsertScripts /\ pc \in { "done", "failed" } /\ runs = 1
    /\ runs' = 2
    /\ firstLoad' = db
    /\ pc' = "start"
    /\ raised' = FALSE
    /\ todo' = << >>
    /\ report' = NoReport
    /\ UNCHANGED << LoadFrame, current, db >>

NextLoad == Load_ReadConfig \/ Load_Glob \/ Load_File \/ Load_End \/ Load_Rerun

SpecLoad == InitLoad /\ [][NextLoad]_vars

\* an iteration of the file loop that bulk-inserts the features of a file
BulkInsertStep ==
    /\ script \in InsertScripts /\ pc = "files" /\ todo # << >>
    /\ SuffixOf(Head(todo)).known
    /\ ~ SuffixOf(Head(todo)).is_bbox_file
    /\ outputDir.files[Head(todo).base].features # << >>

\* positions (from 1) of the documents of a file that fail validation
FailingIn(docs) == { i \in DOMAIN docs : ~ Indexable(docs[i].geometry) }

Sound(doc) == Indexable(doc.geometry)

\* C2 as stated: a bulk insert of n documents of which k fail validation
\* inserts the other n-k, reports an inserted count of n-k and reports exactly
\* k per-item errors, each with the input index of a failed document; a failure
\* does not abort the documents after it.
C2_UnorderedBulkInsert ==
    [][ BulkInsertStep =>
          LET docs == outputDir.files[Head(todo).base].features
              name == CollectionName(Head(todo))
          IN  /\ db'[name].docs = SelectSeq(docs, Sound)
              /\ report'.inserted = Len(docs) - Cardinality(FailingIn(docs))
              /\ Len(report'.writeErrors) = Cardinality(FailingIn(docs))
              /\ Range(report'.writeErrors) = { i - 1 : i \in FailingIn(docs) } ]_vars

\* C6: re-running the load on an unchanged ./output leaves in every collection
\* the documents the first run left: when the second run has ended, with or
\* without an exception, the database has the collections it had after the
\* first run, each with the same documents in the same number.
C6_RerunSameDocuments ==
    (script \in InsertScripts /\ runs = 2 /\ pc \in { "done", "failed" }) =>
        /\ DOMAIN db = DOMAIN firstLoad
        /\ \A name \in DOMAIN db : db[name].docs = firstLoad[name].docs

\* a second run has completed over files that bulk-inserted two or more
\* documents into a collection and one into another, and the collections
\* hold what the first run left
C6_Witness ==
    /\ script \in InsertScripts /\ runs = 2 /\ pc = "done"
    /\ \E a, b \in DOMAIN db :
          /\ a # b
          /\ Len(db[a].docs) >= 2 /\ db[a].docs = firstLoad[a].docs
          /\ Len(db[b].docs) = 1 /\ db[b].docs = firstLoad[b].docs

-----------------------------------------------------------------------------
(* prepare-dem-data.py: every tile of ./input is unzipped, converted, offset,
   reprojected and resampled in subdirectories of ./processing and the
   resampled files are copied to ./output.  A directory is modelled by its
   subdirectories, each holding a set of tiles. *)

MaxTiles == 2

\* config.demResolutions, as the names of the subdirectories dem<resolution>
demResolutions == { "dem1", "dem10", "dem25", "dem50" }

\* ./processing as a run with config.unzip = False expects it
StaleTiles == Dir([ n \in { "0_xyz" } |-> { 0 } ])

\* os.mkdir(subdir) if it does not exist, and a file written into it
PutTile(dir, subdir, tile) ==
    Dir([ n \in DOMAIN dir.files \cup { subdir } |->
            IF n = subdir
            THEN (IF n \in DOMAIN dir.files THEN dir.files[n] ELSE {}) \cup { tile }
            ELSE dir.files[n] ])

RECURSIVE PutTiles(_, _, _)
PutTiles(dir, subdirs, tile) ==
    IF subdirs = {} THEN dir
    ELSE LET subdir == CHOOSE n \in subdirs : TRUE
         IN  PutTiles(PutTile(dir, subdir, tile), subdirs \ { subdir }, tile)

HasTile(dir, subdir, tile) ==
    dir.kind = "dir" /\ subdir \in DOMAIN dir.files /\ tile \in dir.files[subdir]

\* if not os.path.exists(path): os.mkdir(path)
MkdirIfMissing(dir) == IF dir.kind = "absent" THEN Dir(EmptyFiles) ELSE dir

InitDem ==
    /\ script = "prepare-dem-data"
    /\ pc = "start"
    /\ raised = FALSE
    /\ inputDir \in { [ i \in 1 .. n |-> i ] : n \in 0 .. MaxTiles }
    /\ processingDir \in { AbsentDir, PlainFile, Dir(EmptyFiles), StaleTiles }
    /\ outputDir \in { AbsentDir, PlainFile, Dir(EmptyFiles) }
    /\ heap = << >>
    /\ point_geojson = NoCollection
    /\ line_geojson = NoCollection
    /\ shafts = << >>
    /\ txt_blocks = << >>
    /\ json_data = << >>
    /\ derived = NoCollection
    /\ todo = << >>
    /\ idx = 0
    /\ listing = << >>
    /\ current = 0
    /\ db = Idle
    /\ report = Idle
    /\ config = Idle
    /\ os_sep = "/"
    /\ runs = 0
    /\ firstLoad = Idle
    /\ bbox_arg = Idle
    /\ bbox_result = Idle

DemFrame == << script, inputDir, SewersLocals, json_data, derived, listing, db, report,
               config, os_sep, runs, firstLoad,
               bbox_arg, bbox_result >>

\* lines 50-59
DEM_PrepareDirs ==
    /\ script = "prepare-dem-data" /\ pc = "start"
    /\ processingDir' = MkdirIfMissing(processingDir)
    /\ outputDir' = MkdirIfMissing(outputDir)
    /\ todo' = inputDir
    /\ pc' = "tile"
    /\ UNCHANGED << DemFrame, raised, current >>

\* line 62: the next tile, or "Script done."
DEM_NextTile ==
    /\ script = "prepare-dem-data" /\ pc = "tile"
    /\ IF todo = << >>
       THEN pc' = "finally" /\ UNCHANGED << todo, current >>
       ELSE pc' = "unzip" /\ current' = Head(todo) /\ todo' = Tail(todo)
    /\ UNCHANGED << DemFrame, raised, processingDir, outputDir >>

\* lines 68-77; os.mkdir raises when ./processing is not a directory
DEM_Unzip ==
    /\ script = "prepare-dem-data" /\ pc = "unzip"
    /\ IF processingDir.kind = "dir"
       THEN /\ processingDir' = PutTile(processingDir, "0_xyz", current)
            /\ pc' = "tiff"
            /\ UNCHANGED raised
       ELSE Throw /\ UNCHANGED processingDir
    /\ UNCHANGED << DemFrame, outputDir, todo, current >>

\* lines 83-104: the converted file, and the file with the offset if the
\* external command produced it; subprocess.run does not raise when the
\* command fails
DEM_Tiff ==
    /\ script = "prepare-dem-data" /\ pc = "tiff"
    /\ \E produced \in BOOLEAN :
          LET tiff == PutTile(processingDir, "1_tiff", current)
              made == PutTile(tiff, "1_tiff_offset", current)
              missing == Dir([ n \in DOMAIN made.files |->
                                 IF n = "1_tiff_offset" THEN made.files[n] \ { current }
                                 ELSE made.files[n] ])
          IN  processingDir' = IF produced THEN made ELSE missing
    /\ pc' = "reproject"
    /\ UNCHANGED << DemFrame, raised, outputDir, todo, current >>

\* lines 112-124: gdal.Warp raises when its input file does not exist
DEM_Reproject ==
    /\ script = "prepare-dem-data" /\ pc = "reproject"
    /\ IF HasTile(processingDir, "1_tiff_offset", current)
       THEN /\ processingDir' = PutTile(processingDir, "2_WGS84", current)
            /\ pc' = "resample"
            /\ UNCHANGED raised
       ELSE Throw /\ UNCHANGED processingDir
    /\ UNCHANGED << DemFrame, outputDir, todo, current >>

\* lines 126-131 and resample()
DEM_Resample ==
    /\ script = "prepare-dem-data" /\ pc = "resample"
    /\ processingDir' = PutTile(processingDir, "4_resampled", current)
    /\ pc' = "copy"
    /\ UNCHANGED << DemFrame, raised, outputDir, todo, current >>

\* lines 135-146; os.mkdir raises when ./output is not a directory
DEM_Copy ==
    /\ script = "prepare-dem-data" /\ pc = "copy"
    /\ IF outputDir.kind = "dir"
       THEN /\ outputDir' = PutTiles(outputDir, demResolutions, current)
            /\ pc' = "tile"
            /\ UNCHANGED raised
       ELSE Throw /\ UNCHANGED outputDir
    /\ UNCHANGED << DemFrame, processingDir, todo, current >>

\* a library or file-system call of a step raises
DEM_Raise ==
    /\ script = "prepare-dem-data"
    /\ pc \in { "unzip", "tiff", "reproject", "resample", "copy" }
    /\ Throw
    /\ UNCHANGED << DemFrame, processingDir, outputDir, todo, current >>

\* DEM_Finally without the rmtree, which C7 must tell from it
DEM_FinallySkipped ==
    /\ script = "prepare-dem-data" /\ pc = "finally"
    /\ pc' = IF raised THEN "failed" ELSE "done"
    /\ UNCHANGED << DemFrame, raised, processingDir, outputDir, todo, current >>

\* lines 153-156: shutil.rmtree(processing_path) removes the directory; on a
\* path that is not a directory it raises and removes nothing
DEM_Finally ==
    /\ script = "prepare-dem-data" /\ pc = "finally"
    /\ IF processingDir.kind = "dir"
       THEN /\ processingDir' = AbsentDir
            /\ pc' = IF raised THEN "failed" ELSE "done"
            /\ UNCHANGED raised
       ELSE /\ pc' = "failed"
            /\ raised' = TRUE
            /\ UNCHANGED processingDir
    /\ UNCHANGED << DemFrame, outputDir, todo, current >>

NextDem ==
    \/ DEM_PrepareDirs
    \/ DEM_NextTile
    \/ DEM_Unzip
    \/ DEM_Tiff
    \/ DEM_Reproject
    \/ DEM_Resample
    \/ DEM_Copy
    \/ DEM_Raise
    \/ DEM_Finally

SpecDem == InitDem /\ [][NextDem]_vars

(* The two preparation scripts that work in a scratch directory *)

InitScratch == InitSewers \/ InitDem
NextScratch == NextSewers \/ NextDem
SpecScratch == InitScratch /\ [][NextScratch]_vars

\* the run of a preparation script has ended
RunEnded ==
    /\ script \in { "prepareSewers", "prepare-dem-data" }
    /\ pc \in { "done", "failed", "aborted" }

\* C7: when a run of prepareSewers.py or prepare-dem-data.py has ended,
\* completed or failed at any step, ./processing holds no scratch content: it
\* is an empty directory, or it does not exist, or the path is not a directory.
C7_ScratchRemoved ==
    RunEnded => (processingDir.kind = "dir" => DOMAIN processingDir.files = {})

\* a run of prepare-dem-data.py has failed on its second tile, after the
\* first was copied to ./output, and ./processing is gone
C7_Witness ==
    /\ script = "prepare-dem-data" /\ pc = "failed"
    /\ current = 2 /\ processingDir = AbsentDir
    /\ outputDir.kind = "dir" /\ HasTile(outputDir, "dem1", 1)

-----------------------------------------------------------------------------
(* calculateBbox (prepareSewerData.py) on its own, over geometries built from
   a few vertices in every order *)

MaxVertices == 3

BboxVertices == { << 0, 0, 0 >>, << 1, 2, 3 >>, << -1, 5, 1 >>, << 2, -1, 0 >> }

\* rings inside a Polygon: one within the bounds of any outer ring's plane
\* but below it, one above it, one level with the vertex (0, 0, 0)
InnerRings ==
    { << << 0, 1, -50 >>, << 0, 2, -50 >>, << 1, 1, -40 >>, << 0, 1, -50 >> >>,
      << << 0, 1, 70 >>, << 0, 2, 60 >>, << 1, 1, 60 >>, << 0, 1, 70 >> >>,
      << << 0, 0, 0 >>, << 0, 0, 0 >>, << 0, 0, 0 >>, << 0, 0, 0 >> >> }

Closed(ring) == Append(ring, ring[1])

BboxInputs ==
    LET paths == SeqsUpTo(BboxVertices, MaxVertices) \ { << >> }
        outer == { Closed(p) : p \in { q \in paths : Len(q) = MaxVertices } }
    IN  { PointGeom(v) : v \in BboxVertices }
          \cup { LineGeom(p) : p \in paths }
          \cup { PolygonGeom(<< o >>) : o \in outer }
          \cup { PolygonGeom(<< o, h >>) : o \in outer, h \in InnerRings }

InitBbox ==
    /\ script = "calculateBbox"
    /\ pc = "start"
    /\ raised = FALSE
    /\ inputDir = EmptyFiles
    /\ processingDir = AbsentDir
    /\ outputDir = AbsentDir
    /\ heap = << >>
    /\ point_geojson = NoCollection
    /\ line_geojson = NoCollection
    /\ shafts = << >>
    /\ txt_blocks = << >>
    /\ json_data = << >>
    /\ derived = NoCollection
    /\ todo = << >>
    /\ idx = 0
    /\ listing = << >>
    /\ current = "none"
    /\ db = Idle
    /\ report = Idle
    /\ config = Idle
    /\ os_sep = "/"
    /\ runs = 0
    /\ firstLoad = Idle
    /\ bbox_arg \in BboxInputs
    /\ bbox_result = Idle

\* result = calculateBbox(geometry)
Bbox_Call ==
    /\ script = "calculateBbox" /\ pc = "start"
    /\ bbox_result' = calculateBbox(bbox_arg)
    /\ pc' = "done"
    /\ UNCHANGED << script, raised, inputDir, processingDir, outputDir, SewersLocals,
                    json_data, derived, todo, listing, current, db, report,
                    config, os_sep, runs, firstLoad, bbox_arg >>

NextBbox == Bbox_Call

SpecBbox == InitBbox /\ [][NextBbox]_vars

\* a call of calculateBbox has returned
BboxReturned == script = "calculateBbox" /\ pc = "done"

\* the vertices of a geometry, and of its rings from the first to the n-th
VerticesOf(g, n) == UNION { Range(g.rings[r]) : r \in 1 .. n }

\* [pMin, pMax] are the per-axis minimum and maximum over the vertices vs
BoundsExactly(result, vs) ==
    \A a \in 1 .. 3 :
        /\ Len(result.pMin[a]) = 1 /\ Len(result.pMax[a]) = 1
        /\ \A v \in vs : result.pMin[a][1] <= v[a] /\ v[a] <= result.pMax[a][1]
        /\ \E v \in vs : v[a] = result.pMin[a][1]
        /\ \E v \in vs : v[a] = result.pMax[a][1]

\* C8: for a Point or a LineString, calculateBbox returns pMin and pMax such
\* that every vertex lies componentwise between them and each of the six
\* bounds is attained by a vertex, in any vertex order and also when an
\* ordinate is 0.
C8_BboxIsMinMax ==
    (BboxReturned /\ bbox_arg.type \in { "Point", "LineString" }) =>
        BoundsExactly(bbox_result, VerticesOf(bbox_arg, 1))

\* the LineString (0,0,0), (1,2,3), (-1,5,1) has given pMin = (-1,0,0) and
\* pMax = (1,5,3)
C8_Witness ==
    /\ BboxReturned
    /\ bbox_arg = LineGeom(<< << 0, 0, 0 >>, << 1, 2, 3 >>, << -1, 5, 1 >> >>)
    /\ bbox_result.pMin = << << -1 >>, << 0 >>, << 0 >> >>
    /\ bbox_result.pMax = << << 1 >>, << 5 >>, << 3 >> >>

\* C9 as stated: for a Polygon, pMin and pMax are the per-axis minimum and
\* maximum over the vertices of the outer ring; inner rings have no influence
C9_OuterRingOnly ==
    (BboxReturned /\ bbox_arg.type = "Polygon") =>
        BoundsExactly(bbox_result, VerticesOf(bbox_arg, 1))

\* C9 (amended): for a Polygon, calculateBbox computes the per-axis minimum
\* and maximum over the vertices of all rings, the outer ring and every inner
\* ring: a vertex of an inner ring that lies outside the bounds of the outer
\* ring on an axis moves pMin or pMax.
C9_AllRings ==
    (BboxReturned /\ bbox_arg.type = "Polygon") =>
        BoundsExactly(bbox_result, VerticesOf(bbox_arg, Len(bbox_arg.rings)))

\* a Polygon with an inner ring below its outer ring has been given a pMin
\* whose height is the inner ring's
C9_Witness ==
    /\ BboxReturned /\ bbox_arg.type = "Polygon" /\ Len(bbox_arg.rings) = 2
    /\ \A v \in Range(bbox_arg.rings[1]) : v[3] > bbox_result.pMin[3][1]
    /\ \E v \in Range(bbox_arg.rings[2]) : v[3] = bbox_result.pMin[3][1]

-----------------------------------------------------------------------------
(* The derived shaft lines of prepareSewerData.py *)

\* the shaft copies of deriveLineStringGeometries that have a cover and a
\* bottom height after the scan, in order
ShaftsWithHeights == SelectSeq(shafts, LAMBDA s : HasBothHeights(heap[s]))

LinesDerived ==
    script = "prepareSewerData" /\ pc \in { "bbox", "save" } /\ ~ derived.isNone

\* C10: for a shaft at (lon, lat) with cover height c (E0101.N01_%) and bottom
\* height b (E0101.N02_%), the derived feature is a LineString of exactly the
\* two vertices [lon, lat, b + geoid_undulation] and
\* [lon, lat + 1e-12, c + geoid_undulation], in this order, and has the
\* shaft's properties; there is one derived feature per such shaft.
C10_DerivedLine ==
    LinesDerived =>
        /\ Len(derived.features) = Len(ShaftsWithHeights)
        /\ \A i \in DOMAIN ShaftsWithHeights :
              LET shaft == heap[ShaftsWithHeights[i]]
                  line == derived.features[i]
                  lon == shaft.geometry.rings[1][1][1]
                  lat == shaft.geometry.rings[1][1][2]
                  b == shaft.properties[N02].v
                  c == shaft.properties[N01].v
              IN  /\ line.geometry.type = "LineString"
                  /\ line.geometry.rings =
                       << << << lon, lat, b + geoid_undulation >>,
                             << lon, lat + 1, c + geoid_undulation >> >> >>
                  /\ line.properties = shaft.properties

\* a line has been derived for a shaft with cover height 5.00 and bottom
\* height 2.00
C10_Witness ==
    /\ LinesDerived
    /\ \E i \in DOMAIN derived.features :
          LET line == derived.features[i]
          IN  /\ line.properties[N01] = Num(500) /\ line.properties[N02] = Num(200)
              /\ line.geometry.rings[1][1][3] = 200 + geoid_undulation
              /\ line.geometry.rings[1][2][3] = 500 + geoid_undulation
              /\ line.geometry.rings[1][2][2] = line.geometry.rings[1][1][2] + 1

-----------------------------------------------------------------------------
(* The bounding-box side files of prepareSewerData.py *)

\* the side file main() writes next to the collection file n (lines 94, 102)
SideFile(n) == << n[1], "bboxInfo.json" >>

IdsOf(fs) == { IdAt(fs, i) : i \in DOMAIN fs }

\* C11: once a run of prepareSewerData.py has completed, every collection
\* file it wrote has a side file, and the keys of its bboxReferences are
\* exactly the ids of the features in the collection file: one entry per
\* written feature, holding the corners of that feature's geometry, and no
\* entry for a feature the filters removed.  (json.dump writes the integer
\* key id as its decimal text, one text per id.)
C11_BboxKeysAreWrittenIds ==
    script = "prepareSewerData" =>
        \A n \in WrittenCollections :
            /\ SideFile(n) \in DOMAIN outputDir.files
            /\ outputDir.files[SideFile(n)].kind = "bboxInfo"
            /\ LET refs == outputDir.files[SideFile(n)].bboxReferences
               IN  /\ DOMAIN refs = IdsOf(Features(n))
                   /\ Cardinality(DOMAIN refs) = Len(Features(n))
                   /\ \A i \in DOMAIN Features(n) :
                         refs[IdAt(Features(n), i)] = calculateBbox(Features(n)[i].geometry)

\* a completed run wrote a point collection that lost features to the
\* filters and kept some, next to the lines derived from it
C11_Witness ==
    /\ script = "prepareSewerData" /\ pc = "done"
    /\ "point" \in DOMAIN inputDir
    /\ << "point", "geojson" >> \in WrittenCollections
    /\ << "point_as_lines", "geojson" >> \in WrittenCollections
    /\ Features(<< "point", "geojson" >>) # << >>
    /\ Features(<< "point_as_lines", "geojson" >>) # << >>
    /\ Len(Features(<< "point", "geojson" >>)) < Len(inputDir["point"])
    /\ IdAt(Features(<< "point", "geojson" >>), 1) # 1

-----------------------------------------------------------------------------
(* The 2dsphere index of the insert scripts *)

IsBboxCollection(name) == name[Len(name)] = "bboxInfo"

ShaftsAsLines == << "sewers", "shaftsAsLines" >>

\* C12: a 2dsphere index on geometry is created for every geometry collection
\* except shaftsAsLines, for which index creation is skipped; no index is
\* created for a bbox-info collection.
C12_IndexSkippedForShaftLines ==
    script \in InsertScripts =>
        \A name \in DOMAIN db :
            db[name].indexed <=> (~ IsBboxCollection(name) /\ name # ShaftsAsLines)

\* what the scripts do: every geometry collection is indexed, shaftsAsLines
\* included, and no bbox-info collection is
C12_EveryGeometryCollectionIndexed ==
    script \in InsertScripts =>
        \A name \in DOMAIN db : db[name].indexed <=> ~ IsBboxCollection(name)

\* the derived shaft lines and their side file have been loaded
C12_Loaded ==
    /\ script = "insertSewerDataIntoDB"
    /\ ShaftsAsLines \in DOMAIN db /\ Len(db[ShaftsAsLines].docs) = 2
    /\ ShaftsAsLines \o << "bboxInfo" >> \in DOMAIN db

-----------------------------------------------------------------------------
(* Shafts without a cover or a bottom height *)

ShaftFile ==
    IF script = "prepareSewers" THEN << "shafts", "geojson" >> ELSE << "point", "geojson" >>

ShaftLineFile == << "point_as_lines", "geojson" >>

\* the cover and the bottom height of a written feature: prepareSewers.py
\* writes them under their output names
CoverHeight(f) ==
    IF script = "prepareSewers" THEN f.properties[attributeNameMap[N01]] ELSE f.properties[N01]

BottomHeight(f) ==
    IF script = "prepareSewers" THEN f.properties[attributeNameMap[N02]] ELSE f.properties[N02]

HandlesOf(fs) == [ i \in DOMAIN fs |-> fs[i].properties["dwg_handle"] ]

\* prepareSewers.py lines 124-125 and 143-144: the points that are written as shafts
SewersKeepsShaft(f) == NotSentinelZ(f) /\ NotSentinelCover(f) /\ IsShaft(f)

\* prepareSewerData.py lines 81 and 89
DataKeepsShaft(f) == BelowSentinel(f) /\ HasZ(f)

\* C13 as stated: after the correlation a shaft whose merged attributes lack
\* the cover height (E0101.N01_%) or the bottom height (E0101.N02_%) is
\* dropped, so that no shaft with a null height is in a written shaft
\* collection or in the written collection of derived shaft lines.
C13_NoShaftWithoutHeights ==
    \A n \in WrittenCollections \cap { ShaftFile, ShaftLineFile } :
        \A i \in DOMAIN Features(n) :
            /\ ~ IsNone(CoverHeight(Features(n)[i]))
            /\ ~ IsNone(BottomHeight(Features(n)[i]))

\* C13 (amended): only the derived shaft lines require the two heights.
\* Every derived line has a cover and a bottom height; the shaft collection
\* itself holds every point that passes the sentinel and the Z filters, in
\* input order, whether or not a label gave it heights.
C13_HeightsRequiredOfDerivedLinesOnly ==
    /\ ShaftLineFile \in WrittenCollections =>
          \A i \in DOMAIN Features(ShaftLineFile) :
              /\ ~ IsNone(Features(ShaftLineFile)[i].properties[N01])
              /\ ~ IsNone(Features(ShaftLineFile)[i].properties[N02])
    /\ ShaftFile \in WrittenCollections /\ "point" \in DOMAIN inputDir =>
          HandlesOf(Features(ShaftFile)) =
              HandlesOf(IF script = "prepareSewers"
                        THEN Filter(inputDir["point"], SewersKeepsShaft)
                        ELSE Filter(inputDir["point"], DataKeepsShaft))

\* prepareSewers.py has run the correlation with a label in the file and
\* has written a shaft that no label gave heights
C13_Witness ==
    /\ script = "prepareSewers"
    /\ ShaftFile \in WrittenCollections
    /\ \E i \in DOMAIN inputDir["point"] : IsTxtBlock(inputDir["point"][i])
    /\ \E i \in DOMAIN Features(ShaftFile) :
          /\ IsNone(CoverHeight(Features(ShaftFile)[i]))
          /\ IsNone(BottomHeight(Features(ShaftFile)[i]))

-----------------------------------------------------------------------------
(* Which features a run removes *)

\* the sentinel: a Z of 100, or a label's cover height "100.000"
AtSentinel(f) == f.properties["Z"] = 10000 \/ f.properties[N01] = Str(10000)

\* the point features of the input that the completed run did not write
RemovedPoints ==
    IF ShaftFile \in WrittenCollections /\ "point" \in DOMAIN inputDir
    THEN { i \in DOMAIN inputDir["point"] :
             \A j \in DOMAIN Features(ShaftFile) :
                 Features(ShaftFile)[j].properties["dwg_handle"] # i }
    ELSE {}

LineCollectionFile ==
    IF script = "prepareSewers" THEN << "pipes", "geojson" >> ELSE << "line", "geojson" >>

-----------------------------------------------------------------------------
(* The shafts and the labels of prepareSewers.py *)

\* the lists of lines 143-146 have been built and point_geojson["features"]
\* still is the list they were selected from
Partitioned == script = "prepareSewers" /\ pc = "shafts"

\* C15: the correlation partitions the point features into two disjoint sets,
\* the shafts and the labels: no point feature is in both lists.
C15_ShaftsAndLabelsDisjoint ==
    script = "prepareSewers" => Range(shafts) \cap Range(txt_blocks) = {}

\* C15 (amended): the two lists are selected from the same point features by
\* two independent tests, int(Z) > 0 outside the ignored layer for the
\* shafts and a layer name containing "_TXT" for the labels; a point is in
\* both lists exactly if it passes both tests, and in neither if it passes none.
C15_ListsSelectedIndependently ==
    Partitioned =>
        \A i \in DOMAIN point_geojson.features :
            LET r == point_geojson.features[i]
                p == heap[r].properties
            IN  /\ r \in Range(shafts) <=>
                      (p["Z"] \div 100 > 0 /\ p["Layer"] # InspLayer)
                /\ r \in Range(txt_blocks) <=> p["Layer"] \in TxtLayers

\* a point of a "_TXT" layer with a Z is in both lists, next to a shaft that
\* is no label and a label that is no shaft
C15_Witness ==
    /\ Partitioned
    /\ Range(shafts) \cap Range(txt_blocks) # {}
    /\ Range(shafts) \ Range(txt_blocks) # {}
    /\ Range(txt_blocks) \ Range(shafts) # {}

-----------------------------------------------------------------------------
(* Failures of the insert scripts *)

\* the iteration that bulk-inserts a file of which a document fails
FailingBulkInsertStep ==
    /\ BulkInsertStep
    /\ FailingIn(outputDir.files[Head(todo).base].features) # {}

\* C16: when the bulk insert of a file fails in part (BulkWriteError) the
\* load does not abort: the count of inserted documents and the failure are
\* reported, no exception leaves the loop and the loop goes on with the
\* files that remain, none of them skipped.
C16_BulkWriteErrorDoesNotAbort ==
    [][ FailingBulkInsertStep =>
          /\ pc' = "files"
          /\ raised' = FALSE
          /\ todo' = Tail(todo)
          /\ report'.kind = "BulkWriteError"
          /\ report'.writeErrors # << >>
          /\ report'.inserted = Len(db'[CollectionName(Head(todo))].docs) ]_vars

\* a first run has ended without an exception although a document of the
\* pipes file was rejected, and the side file globbed after it is loaded
C16_Witness ==
    /\ script \in InsertScripts /\ pc = "done" /\ runs = 1 /\ ~ raised
    /\ \E name \in DOMAIN outputDir.files :
          /\ outputDir.files[name].kind = "geojson"
          /\ FailingIn(outputDir.files[name].features) # {}
          /\ Len(db[CollectionName(PathOf(name))].docs) < Len(outputDir.files[name].features)
          /\ CollectionName(PathOf(name)) \o << "bboxInfo" >> \in DOMAIN db


\* the iteration for a file whose name the script does not know
UnknownFileStep ==
    /\ script \in InsertScripts /\ pc = "files" /\ todo # << >>
    /\ ~ SuffixOf(Head(todo)).known

\* C17: for a file name that is not recognised the load raises at once for
\* that file, before any collection is dropped, indexed or written on its
\* behalf: the database stays as the earlier files left it and no later file
\* is loaded.
C17_UnknownNameRaisesFirst ==
    [][ UnknownFileStep =>
          /\ raised' = TRUE
          /\ pc' = "failed"
          /\ db' = db
          /\ report' = report ]_vars

\* the run has ended with the exception for notes.json after the pipes file
\* before it was loaded, and the collection holds the pipes inserted then
C17_Witness ==
    /\ script = "insertSewerDataIntoDB" /\ pc = "failed" /\ raised /\ runs = 1
    /\ current = PathOf(<< "notes", "json" >>)
    /\ << "line", "geojson" >> \in DOMAIN outputDir.files
    /\ << "sewers", "pipes" >> \in DOMAIN db
    /\ LET docs == outputDir.files[<< "line", "geojson" >>].features
       IN  /\ Len(docs) >= 2
           /\ db[<< "sewers", "pipes" >>].docs = docs


ConfigAbsent == script \in InsertScripts /\ ~ config.isFile

\* C18: when the config file is absent the run fails at startup, before any
\* processing: the run is at its start or has failed, no file is globbed or
\* taken up, no collection is dropped and no document is inserted.
C18_NoConfigNoProcessing ==
    [][ ConfigAbsent =>
          /\ pc \in { "start", "failed" } /\ pc' \in { "start", "failed" }
          /\ pc = "start" /\ runs' = runs => raised' = TRUE /\ pc' = "failed"
          /\ db' = db
          /\ todo' = << >>
          /\ current' = current
          /\ report' = NoReport ]_vars

\* a run without a config file has failed over an ./output that holds files
\* and a database that holds collections of an earlier load
C18_Witness ==
    /\ ConfigAbsent /\ pc = "failed" /\ raised /\ runs = 1
    /\ outputDir.kind = "dir" /\ DOMAIN outputDir.files # {}
    /\ db = StaleDb

-----------------------------------------------------------------------------
(* The renaming pass of prepareSewers.py *)

\* the step of lines 238-247
RenameStep == script = "prepareSewers" /\ pc = "rename"

\* the features the pass renames: the shafts and the pipes read back at
\* lines 229-234
Renamed == Range(shafts) \cup Range(line_geojson.features)

OutputName(key) == IF key \in DOMAIN attributeNameMap THEN attributeNameMap[key] ELSE key

StepOrder ==
    << "start", "convert", "load", "filter", "ids", "offset", "partition", "shafts",
       "pipes", "reproject", "rename", "save", "finally", "done" >>

Position(step) ==
    IF step \in Range(StepOrder)
    THEN CHOOSE i \in DOMAIN StepOrder : StepOrder[i] = step
    ELSE Len(StepOrder)

\* the steps that read or write attributes under their original field codes:
\* the filters, the id assignment, the height offset and the correlations
StepsOnFieldCodes == { "filter", "ids", "offset", "partition", "shafts", "pipes" }

\* the output names that are no field codes
NewNames == { attributeNameMap[k] : k \in DOMAIN attributeNameMap } \ DOMAIN attributeNameMap

\* some feature carries an attribute under its output name
RenamingStarted ==
    \E r \in DOMAIN heap : DOMAIN heap[r].properties \cap NewNames # {}

\* C20: in prepareSewers.py the renaming pass runs after every filter,
\* id-assignment, height-offset and correlation step and immediately before
\* the output collections are serialized: main() never steps backwards, the
\* step after the renaming is the serialization and the serialization is
\* entered from the renaming only, and once an attribute carries its output
\* name no step that works on the original field codes runs any more.
C20_RenameAfterAllStepsBeforeSave ==
    [][ script = "prepareSewers" =>
          /\ Position(pc') >= Position(pc)
          /\ \A step \in StepsOnFieldCodes : Position(step) < Position("rename")
          /\ (pc = "rename" /\ pc' # pc) => (pc' = "save" /\ RenamingStarted')
          /\ (pc' = "save" /\ pc # "save") => pc = "rename"
          /\ RenamingStarted => pc \notin StepsOnFieldCodes \cup { "rename" }
          /\ RenamingStarted' => pc' \notin StepsOnFieldCodes \cup { "rename" } ]_vars

\* the renaming has run on a shaft that the correlation gave a cover height,
\* whose height is offset and which has an id, and the collections are about
\* to be serialized
C20_Witness ==
    /\ script = "prepareSewers" /\ pc = "save" /\ RenamingStarted
    /\ \E i \in DOMAIN shafts :
          LET f == heap[shafts[i]]
          IN  /\ f.properties["Deckelhoehe [m]"] = Num(500)
              /\ f.properties["id"] >= 1
              /\ f.geometry.rings[1][1][3] = f.properties["Z"] + geoid_undulation

-----------------------------------------------------------------------------
(* The placeholder attributes of unmatched pipes *)

\* the loop over the pipes (lines 181-216) has ended and the collections
\* have not been reprojected yet
PipesCorrelated == script = "prepareSewers" /\ pc = "reproject"

\* the labels that satisfy the condition of line 200 for the pipe p
MatchingLabels(p) ==
    { k \in DOMAIN txt_blocks : PipeCandidate(heap[p], heap[txt_blocks[k]].properties) }

\* C21: after the correlation pass a pipe for which no label satisfies both
\* the length tolerance and the buffer containment has the placeholder
\* attributes, Color "150,150,150" and diameter E0102.N05_% 300; a pipe that
\* a label matched has both overwritten by that label's values, the diameter
\* as a float, or null where the label has none.
C21_UnmatchedPipeKeepsDefaults ==
    PipesCorrelated =>
        \A i \in DOMAIN line_geojson.features :
            LET p == line_geojson.features[i]
                props == heap[p].properties
            IN  IF MatchingLabels(p) = {}
                THEN /\ props["Color"] = DefaultColor
                     /\ D05 \in DOMAIN props
                     /\ props[D05] = DefaultDiameter
                ELSE \E k \in MatchingLabels(p) :
                        /\ props["Color"] = heap[txt_blocks[k]].properties["Color"]
                        /\ props[D05] = FloatOrNone(heap[txt_blocks[k]].properties[D05])

\* the pass has ended with a pipe that has the placeholders, no label having
\* matched it, although the file holds a label whose declared length fits
\* the pipe and that lies outside its buffer
C21_Witness ==
    /\ PipesCorrelated
    /\ \E i \in DOMAIN line_geojson.features :
          LET p == line_geojson.features[i]
          IN  /\ MatchingLabels(p) = {}
              /\ heap[p].properties["Color"] = DefaultColor
              /\ heap[p].properties[D05] = DefaultDiameter
              /\ \E k \in DOMAIN txt_blocks :
                    /\ DeclaredLengthFits(p, txt_blocks[k])
                    /\ ~ InsideBuffer(p, txt_blocks[k])

-----------------------------------------------------------------------------
(* The shaft collection while its lines are derived *)

\* deriveLineStringGeometries is at work (line 87), up to the filter of
\* line 89 that follows its return
Deriving == script = "prepareSewerData" /\ pc = "derive"

\* C22: deriving the shaft-depth lines leaves the shaft collection unchanged:
\* no step of deriveLineStringGeometries changes the geometry or an
\* attribute of a feature of json_data or adds a feature to it, and what
\* main() keeps of the collection afterwards are the features with Z > 0 as
\* they were before the call; the derived lines are in the returned
\* collection only.
C22_DeriveLeavesShaftsUnchanged ==
    [][ Deriving =>
          /\ pc' = "derive" => json_data' = json_data
          /\ pc' = "bbox" =>
                /\ json_data' = SelectSeq(json_data, LAMBDA f : f.properties["Z"] > 0)
                /\ \A i \in DOMAIN json_data' : json_data'[i].geometry.type = "Point"
                /\ \A i \in DOMAIN derived'.features :
                      derived'.features[i].geometry.type = "LineString" ]_vars

\* a line has been derived from a copy that the scan gave the heights 5.00
\* and 2.00, and the shaft of that id in the collection has no heights
C22_Witness ==
    /\ script = "prepareSewerData" /\ pc = "bbox" /\ ~ derived.isNone
    /\ \E i \in DOMAIN derived.features : \E j \in DOMAIN json_data :
          /\ derived.features[i].properties["id"] = json_data[j].properties["id"]
          /\ derived.features[i].properties[N01] = Num(500)
          /\ derived.features[i].properties[N02] = Num(200)
          /\ IsNone(json_data[j].properties[N01])
          /\ IsNone(json_data[j].properties[N02])
          /\ json_data[j].geometry.type = "Point"

-----------------------------------------------------------------------------
(* The bbox-info documents of the insert scripts *)

\* the iteration that loads a bbox-info file
BboxFileStep ==
    /\ script \in InsertScripts /\ pc = "files" /\ todo # << >>
    /\ SuffixOf(Head(todo)).known
    /\ SuffixOf(Head(todo)).is_bbox_file

\* the geometry file next to a bbox-info file
Sibling(file_path) == PathOf(<< file_path.base[1], "geojson" >>)

\* C23: loading a bbox-info file leaves its target collection with exactly
\* one document, which holds the file's bboxReferences and whose
\* collectionName is the name of the collection the geometry file of the
\* same stem is loaded into, the target's name without its bboxInfo part;
\* that holds for every bbox-info collection of the database, a second load
\* included.
C23_OneBboxDocumentWithBackReference ==
    [][ /\ BboxFileStep =>
            LET name == CollectionName(Head(todo))
                docs == db'[name].docs
            IN  /\ IsBboxCollection(name)
                /\ Len(docs) = 1
                /\ docs[1].bboxReferences = outputDir.files[Head(todo).base].bboxReferences
                /\ SuffixOf(Sibling(Head(todo))).known
                /\ ~ SuffixOf(Sibling(Head(todo))).is_bbox_file
                /\ docs[1].collectionName = CollectionName(Sibling(Head(todo)))
                /\ docs[1].collectionName \o << "bboxInfo" >> = name
        /\ script \in InsertScripts =>
            \A name \in DOMAIN db' :
                IsBboxCollection(name) =>
                    /\ Len(db'[name].docs) = 1
                    /\ db'[name].docs[1].collectionName \o << "bboxInfo" >> = name ]_vars

\* the side file of the derived shaft lines has been loaded a second time
\* after the lines themselves: its collection holds one document, which
\* names the collection of the lines
C23_Witness ==
    /\ script = "insertSewerDataIntoDB" /\ runs = 2 /\ pc = "done"
    /\ ShaftsAsLines \in DOMAIN db
    /\ ShaftsAsLines \o << "bboxInfo" >> \in DOMAIN db
    /\ LET docs == db[ShaftsAsLines \o << "bboxInfo" >>].docs
       IN  /\ Len(docs) = 1
           /\ docs[1].collectionName = ShaftsAsLines
           /\ DOMAIN docs[1].bboxReferences # {}

-----------------------------------------------------------------------------
(* What addHeightOffset leaves alone *)

\* the step that calls addHeightOffset (prepareSewers.py lines 139-140,
\* prepareSewerData.py line 66)
OffsetStep == script \in { "prepareSewers", "prepareSewerData" } /\ pc = "offset"

\* g is f but for the heights of its vertices: the same attributes, the same
\* rings with the same number of vertices in the same order, and every
\* vertex with the x and y it had
SameButHeights(f, g) ==
    /\ g.properties = f.properties
    /\ g.geometry.type = f.geometry.type
    /\ Len(g.geometry.rings) = Len(f.geometry.rings)
    /\ \A r \in DOMAIN f.geometry.rings :
          /\ Len(g.geometry.rings[r]) = Len(f.geometry.rings[r])
          /\ \A i \in DOMAIN f.geometry.rings[r] :
                /\ Len(g.geometry.rings[r][i]) = Len(f.geometry.rings[r][i])
                /\ g.geometry.rings[r][i][1] = f.geometry.rings[r][i][1]
                /\ g.geometry.rings[r][i][2] = f.geometry.rings[r][i][2]

\* C24: addHeightOffset changes only the height ordinate of geometry
\* vertices: every feature has after the call the x and y of every vertex,
\* the vertex count and order and every attribute value (Z, E0101.* and
\* E0102.* included) it had before, and the collection has the same features
\* in the same order.
C24_OffsetChangesHeightsOnly ==
    [][ OffsetStep =>
          IF script = "prepareSewers"
          THEN /\ DOMAIN heap' = DOMAIN heap
               /\ \A r \in DOMAIN heap : SameButHeights(heap[r], heap'[r])
               /\ point_geojson' = point_geojson /\ line_geojson' = line_geojson
          ELSE /\ Len(json_data') = Len(json_data)
               /\ \A i \in DOMAIN json_data : SameButHeights(json_data[i], json_data'[i]) ]_vars

\* prepareSewerData.py has offset a shaft of height 5.00: its vertex is
\* 45.43 higher than its attribute Z, which has its value, and has its x and y
C24_Witness ==
    /\ script = "prepareSewerData" /\ pc = "ids" /\ current = "point"
    /\ \E i \in DOMAIN json_data :
          LET f == json_data[i]
              v == f.geometry.rings[1][1]
          IN  /\ f.properties["Z"] = 500
              /\ f.properties = inputDir["point"][i].properties
              /\ v[3] = 500 + geoid_undulation
              /\ << v[1], v[2], 500 >> = ToWgs84(inputDir["point"][i].geometry.rings[1][1])

-----------------------------------------------------------------------------
(* The labels during the correlation passes of prepareSewers.py *)

\* a step of the loop over the shafts or of the loop over the pipes
CorrelationStep == script = "prepareSewers" /\ pc \in { "shafts", "pipes" }

\* C25: the shaft and the pipe correlation never modify a label: no step of
\* either loop changes an attribute of a feature of txt_blocks, so that the
\* attributes read from a label are its converted input attributes whatever
\* shafts or pipes were processed before.
C25_LabelsNeverModified ==
    [][ CorrelationStep =>
          \A k \in DOMAIN txt_blocks :
              heap'[txt_blocks[k]].properties = heap[txt_blocks[k]].properties ]_vars

\* the shaft pass has ended and a shaft of layer Schacht has the placeholder
\* colour although labels lie at its X and Y: the last of them is a shaft
\* too and lost its colour when it was processed before
C25_ShaftReadPlaceholderFromLabel ==
    /\ script = "prepareSewers" /\ pc = "pipes"
    /\ \E i \in DOMAIN shafts :
          LET s == shafts[i]
              at == { k \in DOMAIN txt_blocks :
                        SameXY(heap[s].properties, heap[txt_blocks[k]].properties) }
          IN  /\ heap[s].properties["Layer"] = "Schacht"
              /\ at # {}
              /\ heap[s].properties["Color"] = DefaultColor
              /\ \E j \in 1 .. i - 1 : shafts[j] = txt_blocks[Max(at)]


(* The output directory after a run of prepareSewerData.py *)

\* the run of prepareSewerData.py has left main() by its last line
RunCompleted == script = "prepareSewerData" /\ pc = "done"

\* the names lines 44-117 write for the input files of this run
WrittenNames ==
    { << stem, ext >> : stem \in DOMAIN inputDir \cup { AsLines(s) : s \in DOMAIN inputDir },
                        ext \in { "geojson", "bboxInfo.json" } }

\* the files of ./output that insertSewerDataIntoDB.py lists (lines 30-31)
\* and does not reject (lines 37-67)
PickedUp ==
    { n \in DOMAIN outputDir.files :
        /\ n[2] \in GeojsonPattern \cup JsonPattern
        /\ SewerDataSuffix(PathOf(n)).known }

\* C26: after a run of prepareSewerData.py every file of the output
\* directory that the load step picks up was written by that run; no
\* collection file and no bounding-box side file of an earlier run is left
C26_LoadedFilesWrittenByThisRun ==
    RunCompleted => PickedUp \subseteq WrittenNames

\* the part of C26 the code keeps: no collection file of an earlier run is left
C26_NoStaleCollectionFile ==
    RunCompleted =>
        \A n \in PickedUp : n[2] \in GeojsonPattern => n \in WrittenNames

\* a side file of an earlier run is left and the load step takes it for the
\* bounding boxes of the shafts
C26_StaleSideFileLoaded ==
    /\ RunCompleted
    /\ \E n \in PickedUp \ WrittenNames :
          /\ n[2] = "bboxInfo.json"
          /\ SewerDataSuffix(PathOf(n)).collection_suffix = << "shafts", "bboxInfo" >>

=============================================================================
